---- MODULE Spec2Model ----
(***************************************************************************)
(* Model of src/sdl3/render.rs: the ownership and lifetime discipline of   *)
(* RendererContext / Canvas / TextureCreator / Texture, render-target      *)
(* redirection, texture locking and texture-creation validation.           *)
(*                                                                         *)
(* The native engine (SDL) is modelled by its observable effects: which    *)
(* native handles are live, how often each destroy entry point was called, *)
(* the currently bound render target and the texture lock.                 *)
(***************************************************************************)
EXTENDS Integers, Sequences, FiniteSets, TLC

\* ------------------------------------------------------------------------
\* Bounds
\* ------------------------------------------------------------------------
MaxCanvases == 2
MaxCreators == 1
MaxTextures == 1

Canvases == 1..MaxCanvases
\* every Canvas is built from its own Window; window w belongs to canvas w
Windows == Canvases
\* native SDL_Renderer handles: at most one is minted per create_renderer
Renderers == Canvases
Creators == 1..MaxCreators
Textures == 1..MaxTextures

VARIABLES
    unsafe_textures,  \* cargo feature "unsafe_textures" of the build
    world,            \* native handles and the Arc count of every target
    canvas,           \* Canvas<Window> values
    context,          \* Rc<RendererContext<WindowContext>> allocations
    creator,          \* TextureCreator values
    texture,          \* Texture values
    window,           \* Window wrappers (the Canvas's `target` field)
    targetSupported,  \* whether the renderer can render to a texture
    target,           \* SDL_GetRenderTarget: bound texture, NULL = original
    stack,            \* active with_texture_canvas / with_multiple_.. calls
    unwinding,        \* a closure panicked and the panic is propagating
    ret,              \* what the call that just returned handed back
    lockTexture,      \* the streaming texture with_lock is called on
    lockCall,         \* the with_lock call in progress
    lockRet,          \* what the with_lock call that just ended handed back
    vin,              \* arguments of a validated texture call, and what the
                      \* engine will answer if it is reached
    vout,             \* the result of that call
    numDrivers,       \* SDL_GetNumRenderDrivers: the compiled-in drivers
    iterators,        \* DriverIterator values
    iterRet           \* what the last next() or size_hint() handed back

cfgVars == <<unsafe_textures>>
lifeVars == <<world, canvas, context, creator, texture, window>>
targetVars == <<targetSupported, target, stack, unwinding, ret>>
lockVars == <<lockTexture, lockCall, lockRet>>
valVars == <<vin, vout>>
iterVars == <<numDrivers, iterators, iterRet>>
nonLifeVars == <<targetVars, lockVars, valVars, iterVars>>
nonTargetVars == <<lifeVars, lockVars, valVars, iterVars>>
nonLockVars == <<lifeVars, targetVars, valVars, iterVars>>
nonValVars == <<lifeVars, targetVars, lockVars, iterVars>>
nonIterVars == <<lifeVars, targetVars, lockVars, valVars>>
vars == <<cfgVars, lifeVars, targetVars, lockVars, valVars, iterVars>>

\* the null SDL_Texture pointer: the renderer's original target
NULL == 0
\* no call has returned in the last step
NoRet == [fn |-> "none"]

\* no render-target redirection in progress
TargetIdle ==
    /\ targetSupported = TRUE
    /\ target = NULL
    /\ stack = <<>>
    /\ unwinding = FALSE
    /\ ret = NoRet

\* no validated texture call
ValIdle ==
    /\ vin = [op |-> "none"]
    /\ vout = NoRet

\* drivers() has not been called
MaxIterators == 2
Iterators == 1..MaxIterators
NoIterator == [state |-> "none", length |-> 0, index |-> 0, yielded |-> <<>>]
IterIdle ==
    /\ numDrivers = 0
    /\ iterators = [i \in Iterators |-> NoIterator]
    /\ iterRet = NoRet

\* no with_lock call in progress; the texture is 1 row high and unlocked
NoLockCall == [pc |-> "idle"]
LockIdle ==
    /\ lockTexture = [height |-> 1, format |-> "RGBA8888", locked |-> FALSE]
    /\ lockCall = NoLockCall
    /\ lockRet = NoRet

\* ------------------------------------------------------------------------
\* Native side and shared ownership of the target
\* ------------------------------------------------------------------------

\* SDL_DestroyRenderer(raw): the renderer dies and takes its textures along.
SDL_DestroyRenderer(W, r) ==
    [W EXCEPT !.renderer[r] = "destroyed",
              !.destroyCalls[r] = @ + 1,
              !.texture = [t \in Textures |->
                              IF W.texture[t] = "live" /\ W.texOwner[t] = r
                              THEN "reclaimed" ELSE W.texture[t]]]

\* Dropping one Arc<WindowContext>: the last one closes the native window.
\* freedEarly records a window closed while a renderer bound to it, or held
\* by a RendererContext that keeps this window as _target, was still live.
ArcDrop(W, w, raws) ==
    IF W.arc[w] > 1
    THEN [W EXCEPT !.arc[w] = @ - 1]
    ELSE [W EXCEPT !.arc[w] = 0,
                   !.window[w] = "destroyed",
                   !.freedEarly[w] =
                       \E r \in Renderers :
                           /\ W.renderer[r] = "live"
                           /\ (W.rendererWindow[r] = w \/ r \in raws)]

\* impl Drop for RendererContext: drop() runs first, then the fields.
RendererContextDropSwapped(W, raw, tgt) ==
    SDL_DestroyRenderer(ArcDrop(W, tgt, {raw}), raw)

RendererContextDrop(W, raw, tgt) ==
    ArcDrop(SDL_DestroyRenderer(W, raw), tgt, {raw})

\* Dropping one Rc<RendererContext>: the last one drops the RendererContext.
RcDrop(W, cx, c) ==
    IF cx[c].rc > 1 THEN W ELSE RendererContextDrop(W, cx[c].raw, cx[c].target)

RcDec(cx, c) ==
    [cx EXCEPT ![c].rc = @ - 1,
               ![c].state = IF cx[c].rc > 1 THEN "alive" ELSE "dropped"]

\* SDL_DestroyTexture(raw)
SDL_DestroyTexture(W, t) ==
    [W EXCEPT !.texture[t] = IF @ = "live" THEN "destroyed" ELSE @,
              !.texDestroyCalls[t] = @ + 1,
              !.texDestroyedLate[t] = (W.renderer[W.texOwner[t]] # "live")]

\* ------------------------------------------------------------------------
\* Initial state: nothing constructed yet
\* ------------------------------------------------------------------------
NoCanvas == [state |-> "none", ctx |-> 0]
NoContext == [state |-> "none", rc |-> 0, raw |-> 0, target |-> 0]
NoCreator == [state |-> "none", ctx |-> 0]
NoTexture == [state |-> "none", borrow |-> 0]

LifeInit ==
    /\ world = [renderer |-> [r \in Renderers |-> "none"],
                rendererWindow |-> [r \in Renderers |-> 0],
                destroyCalls |-> [r \in Renderers |-> 0],
                window |-> [w \in Windows |-> "open"],
                arc |-> [w \in Windows |-> 1],
                freedEarly |-> [w \in Windows |-> FALSE],
                texture |-> [t \in Textures |-> "none"],
                texOwner |-> [t \in Textures |-> 0],
                texDestroyCalls |-> [t \in Textures |-> 0],
                texDestroyedLate |-> [t \in Textures |-> FALSE]]
    /\ canvas = [c \in Canvases |-> NoCanvas]
    /\ context = [c \in Canvases |-> NoContext]
    /\ creator = [k \in Creators |-> NoCreator]
    /\ texture = [t \in Textures |-> NoTexture]
    /\ window = [w \in Windows |-> "user"]

\* ------------------------------------------------------------------------
\* Canvas construction and teardown
\* ------------------------------------------------------------------------

\* Canvas::<Window>::from_window_and_renderer(window, renderer): wraps the
\* given raw handle in a new RendererContext that clones the window's Arc.
FromWindowAndRenderer(W, c, r) ==
    /\ canvas' = [canvas EXCEPT ![c] = [state |-> "alive", ctx |-> c]]
    /\ context' = [context EXCEPT ![c] =
                       [state |-> "alive", rc |-> 1, raw |-> r, target |-> c]]
    /\ window' = [window EXCEPT ![c] = "canvas"]
    /\ world' = [W EXCEPT !.arc[c] = @ + 1]

\* create_renderer(window, name): SDL_CreateRenderer, then the constructor
\* on the fresh handle. (A null handle is Err(SdlError): no Canvas is made.)
create_renderer(c) ==
    /\ canvas[c].state = "none"
    /\ \A d \in Canvases : d < c => canvas[d].state # "none"
    /\ \E r \in Renderers :
          /\ world.renderer[r] = "none"
          /\ \A q \in Renderers : q < r => world.renderer[q] # "none"
          /\ FromWindowAndRenderer(
                 [world EXCEPT !.renderer[r] = "live",
                               !.rendererWindow[r] = c], c, r)
    /\ UNCHANGED <<creator, texture, cfgVars, nonLifeVars>>

\* The safe constructor called directly, with the raw() of a live canvas.
from_window_and_renderer(c, d) ==
    /\ canvas[c].state = "none"
    /\ \A e \in Canvases : e < c => canvas[e].state # "none"
    /\ canvas[d].state = "alive"
    /\ FromWindowAndRenderer(world, c, context[canvas[d].ctx].raw)
    /\ UNCHANGED <<creator, texture, cfgVars, nonLifeVars>>

\* Canvas::texture_creator: Rc::clone of the context.
texture_creator(c, k) ==
    /\ canvas[c].state = "alive"
    /\ creator[k].state = "none"
    /\ \A j \in Creators : j < k => creator[j].state # "none"
    /\ creator' = [creator EXCEPT ![k] = [state |-> "alive", ctx |-> canvas[c].ctx]]
    /\ context' = [context EXCEPT ![canvas[c].ctx].rc = @ + 1]
    /\ UNCHANGED <<world, canvas, texture, window, cfgVars, nonLifeVars>>

\* Dropping a Canvas: fields drop in declaration order, target then context.
DropCanvas(c) ==
    /\ canvas[c].state = "alive"
    /\ canvas' = [canvas EXCEPT ![c].state = "dropped"]
    /\ window' = [window EXCEPT ![c] = "dropped"]
    /\ world' = RcDrop(ArcDrop(world, c, {context[canvas[c].ctx].raw}),
                       context, canvas[c].ctx)
    /\ context' = RcDec(context, canvas[c].ctx)
    /\ UNCHANGED <<creator, texture, cfgVars, nonLifeVars>>

\* Canvas::into_window: the target is moved out, the context is dropped.
into_window(c) ==
    /\ canvas[c].state = "alive"
    /\ canvas' = [canvas EXCEPT ![c].state = "dropped"]
    /\ window' = [window EXCEPT ![c] = "returned"]
    /\ world' = RcDrop(world, context, canvas[c].ctx)
    /\ context' = RcDec(context, canvas[c].ctx)
    /\ UNCHANGED <<creator, texture, cfgVars, nonLifeVars>>

\* Dropping the Window handed back by into_window.
DropWindow(w) ==
    /\ window[w] = "returned"
    /\ window' = [window EXCEPT ![w] = "dropped"]
    /\ world' = ArcDrop(world, w, {context[w].raw})
    /\ UNCHANGED <<canvas, context, creator, texture, cfgVars, nonLifeVars>>

\* Dropping a TextureCreator. Without unsafe_textures every Texture<'r>
\* borrows its creator, so the creator cannot be dropped before them.
DropTextureCreator(k) ==
    /\ creator[k].state = "alive"
    /\ unsafe_textures \/ \A t \in Textures :
                             texture[t].state = "alive" => texture[t].borrow # k
    /\ creator' = [creator EXCEPT ![k].state = "dropped"]
    /\ world' = RcDrop(world, context, creator[k].ctx)
    /\ context' = RcDec(context, creator[k].ctx)
    /\ UNCHANGED <<canvas, texture, window, cfgVars, nonLifeVars>>

\* ------------------------------------------------------------------------
\* Textures
\* ------------------------------------------------------------------------

\* SDL_CreateTexture against the context's raw renderer, then
\* raw_create_texture. (A null result is Err(SdlError): no Texture is made
\* and nothing changes, so only the non-null outcome is a step.)
\* `borrow` is the creator the Texture<'r> borrows (0: no lifetime bound).
CreateTexture(cx, t, borrow) ==
    /\ texture[t].state = "none"
    /\ \A u \in Textures : u < t => texture[u].state # "none"
    /\ texture' = [texture EXCEPT ![t] =
                       [state |-> "alive", borrow |-> borrow]]
    /\ world' = [world EXCEPT !.texture[t] = "live",
                              !.texOwner[t] = context[cx].raw]

\* TextureCreator::create_texture
create_texture(k, t) ==
    /\ creator[k].state = "alive"
    /\ CreateTexture(creator[k].ctx, t, IF unsafe_textures THEN 0 ELSE k)
    /\ UNCHANGED <<canvas, context, creator, window, cfgVars, nonLifeVars>>

\* Canvas::create_texture, compiled only with unsafe_textures
canvas_create_texture(c, t) ==
    /\ unsafe_textures
    /\ canvas[c].state = "alive"
    /\ CreateTexture(canvas[c].ctx, t, 0)
    /\ UNCHANGED <<canvas, context, creator, window, cfgVars, nonLifeVars>>

\* a Drop for Texture compiled into both builds
DropTextureDestroys(t) ==
    /\ texture[t].state = "alive"
    /\ texture' = [texture EXCEPT ![t].state = "dropped"]
    /\ world' = SDL_DestroyTexture(world, t)
    /\ UNCHANGED <<canvas, context, creator, window, cfgVars, nonLifeVars>>

\* impl Drop for Texture<'_> exists only without unsafe_textures; with the
\* feature a dropped Texture leaves the native texture to the renderer.
DropTexture(t) ==
    /\ texture[t].state = "alive"
    /\ texture' = [texture EXCEPT ![t].state = "dropped"]
    /\ world' = IF unsafe_textures THEN world ELSE SDL_DestroyTexture(world, t)
    /\ UNCHANGED <<canvas, context, creator, window, cfgVars, nonLifeVars>>

\* Texture::destroy (unsafe fn, compiled only with unsafe_textures)
destroy(t) ==
    /\ unsafe_textures
    /\ texture[t].state = "alive"
    /\ texture' = [texture EXCEPT ![t].state = "destroyed"]
    /\ world' = SDL_DestroyTexture(world, t)
    /\ UNCHANGED <<canvas, context, creator, window, cfgVars, nonLifeVars>>

LifeNext ==
    \/ \E c \in Canvases : create_renderer(c)
    \/ \E c, d \in Canvases : from_window_and_renderer(c, d)
    \/ \E c \in Canvases, k \in Creators : texture_creator(c, k)
    \/ \E c \in Canvases : DropCanvas(c)
    \/ \E c \in Canvases : into_window(c)
    \/ \E w \in Windows : DropWindow(w)
    \/ \E k \in Creators : DropTextureCreator(k)
    \/ \E k \in Creators, t \in Textures : create_texture(k, t)
    \/ \E c \in Canvases, t \in Textures : canvas_create_texture(c, t)
    \/ \E t \in Textures : DropTexture(t)
    \/ \E t \in Textures : destroy(t)

InitLife ==
    /\ unsafe_textures \in BOOLEAN
    /\ LifeInit /\ TargetIdle /\ LockIdle /\ ValIdle /\ IterIdle

SpecLife == InitLife /\ [][LifeNext]_vars

\* ------------------------------------------------------------------------
\* Lifetime claims
\* ------------------------------------------------------------------------

\* the live Canvas and TextureCreator values whose context wraps handle r
Holders(r) ==
    {<<"canvas", c>> : c \in {d \in Canvases :
         canvas[d].state = "alive" /\ context[canvas[d].ctx].raw = r}}
    \cup
    {<<"creator", k>> : k \in {j \in Creators :
         creator[j].state = "alive" /\ context[creator[j].ctx].raw = r}}

\* C1: every native renderer handle is destroyed exactly once, when its last
\* holder among the Canvas and the TextureCreators is dropped, and never
\* while one of them is alive (also for from_window_and_renderer canvases).
C1_DestroyedOnceAtLastDrop ==
    \A r \in Renderers :
        world.renderer[r] # "none" =>
            world.destroyCalls[r] = (IF Holders(r) = {} THEN 1 ELSE 0)

\* C2: without unsafe_textures every Texture is destroyed exactly once, when
\* it is dropped, and never after (or by) the release of its renderer.
C2_TextureDestroyedBeforeRenderer ==
    ~unsafe_textures =>
        \A t \in Textures :
            /\ world.texDestroyCalls[t] =
                   (IF texture[t].state = "dropped" THEN 1 ELSE 0)
            /\ ~world.texDestroyedLate[t]
            /\ world.texture[t] # "reclaimed"

\* C3: the target context outlives the renderer: a window is never closed
\* while a renderer bound to it, or wrapped by a RendererContext holding it
\* as _target, is live, and a live RendererContext's target is open.
C3_TargetOutlivesRenderer ==
    \A w \in Windows :
        /\ ~world.freedEarly[w]
        /\ world.window[w] = "destroyed" =>
               \A r \in Renderers :
                   world.rendererWindow[r] = w => world.renderer[r] # "live"
        /\ context[w].state = "alive" => world.window[context[w].target] = "open"

\* a RendererContext shared by a Canvas and a TextureCreator has been
\* dropped: its renderer is destroyed and its window closed, not too early
C3_Witness ==
    \E c \in Canvases, k \in Creators :
        /\ canvas[c].state = "dropped"
        /\ window[c] = "dropped"
        /\ creator[k].state = "dropped"
        /\ creator[k].ctx = c
        /\ context[c].state = "dropped"
        /\ world.renderer[context[c].raw] = "destroyed"
        /\ world.window[c] = "destroyed"
        /\ ~world.freedEarly[c]

\* C25: with unsafe_textures dropping a Texture never destroys the native
\* texture: SDL_DestroyTexture is called only by destroy(), a native texture
\* otherwise goes only with its renderer, and destroy() is not prevented
\* after the last holder of the renderer has been dropped.
C25_UnsafeDropKeepsNativeTexture ==
    unsafe_textures =>
        \A t \in Textures :
            /\ world.texDestroyCalls[t] =
                   (IF texture[t].state = "destroyed" THEN 1 ELSE 0)
            /\ texture[t].state = "dropped" =>
                   world.texture[t] \in {"live", "reclaimed"}
            /\ world.texture[t] = "destroyed" => texture[t].state = "destroyed"
            /\ world.texture[t] = "reclaimed" =>
                   world.renderer[world.texOwner[t]] = "destroyed"

\* destroy() has run on a Texture whose renderer had lost its last holder
C25_Witness ==
    /\ unsafe_textures
    /\ \E t \in Textures :
           /\ texture[t].state = "destroyed"
           /\ world.texDestroyCalls[t] = 1
           /\ world.texDestroyedLate[t]
           /\ Holders(world.texOwner[t]) = {}

\* ------------------------------------------------------------------------
\* Render-target redirection
\* ------------------------------------------------------------------------
NumTargetTextures == 2
MaxPairs == 2
MaxDepth == 2

\* target-access textures of the canvas, and the user tags paired with them
TargetTextures == 1..NumTargetTextures
Tags == {"a", "b"}

RECURSIVE SeqsUpTo(_, _)
SeqsUpTo(S, n) ==
    IF n = 0 THEN {<<>>}
    ELSE LET shorter == SeqsUpTo(S, n - 1)
         IN shorter \cup {Append(q, x) : q \in shorter, x \in S}

\* an iterator of (&mut Texture, U): no texture can be borrowed twice
PairLists ==
    {ps \in SeqsUpTo([tex : TargetTextures, tag : Tags], MaxPairs) :
        \A i, j \in 1..Len(ps) : i # j => ps[i].tex # ps[j].tex}

\* textures mutably borrowed by the calls in progress
Borrowed ==
    UNION {{stack[i].pairs[j].tex : j \in 1..Len(stack[i].pairs)} :
              i \in 1..Len(stack)}

\* SDL_SetRenderTarget(renderer, texture): what the engine may answer
SetRenderTargetOutcomes(tex) ==
    IF tex # NULL /\ ~targetSupported
    THEN {"not_supported"}
    ELSE {"ok", "driver_error"}

\* RendererContext::set_raw_target: Ok(()) if the engine accepted the target
\* (which is then bound), Err(get_error()) otherwise (the target stays).
set_raw_target(cur, tex, outcome) ==
    IF outcome = "ok"
    THEN [ok |-> TRUE, target |-> tex, error |-> "none"]
    ELSE [ok |-> FALSE, target |-> cur, error |-> outcome]

\* RendererContext::get_raw_target
get_raw_target(cur) == cur

\* the variants of enum TargetRenderError
TargetRenderError == {"SdlError"}

\* .map_err(|e| TargetRenderError::SdlError(e))
map_err(error) == "SdlError"

SetEvent(tex, res) == [op |-> "set", tex |-> tex, ok |-> res.ok]
CallEvent(tag, cur) == [op |-> "f", tag |-> tag, target |-> cur]

\* what a finished call hands back, with the record of what it did
Return(fn, result, err, cause, entry, pairs, calls, nested) ==
    [fn |-> fn, result |-> result, err |-> err, cause |-> cause,
     entry |-> entry, pairs |-> pairs, calls |-> calls, nested |-> nested]

Frame(fn, entry, saved, pairs, calls) ==
    [fn |-> fn, entry |-> entry, saved |-> saved, pairs |-> pairs,
     idx |-> 1, calls |-> calls, nested |-> FALSE]

\* a call can be made by the program (no call active) or by the closure of
\* the innermost active call
CanCall ==
    /\ ~unwinding
    /\ Len(stack) < MaxDepth

\* the innermost closure has made a nested call
NoteNested(st) ==
    IF st = <<>> THEN st ELSE [st EXCEPT ![Len(st)].nested = TRUE]

Top == stack[Len(stack)]
Pop == SubSeq(stack, 1, Len(stack) - 1)

\* Canvas::with_texture_canvas, up to the invocation of the closure
with_texture_canvas(tex) ==
    /\ CanCall
    /\ tex \notin Borrowed
    /\ LET saved == get_raw_target(target) IN
       \E outcome \in SetRenderTargetOutcomes(tex) :
          LET res == set_raw_target(target, tex, outcome)
              pairs == <<[tex |-> tex, tag |-> "a"]>>
          IN
          /\ target' = res.target
          /\ IF res.ok
             THEN /\ stack' = Append(NoteNested(stack),
                                 Frame("with_texture_canvas", target, saved, pairs,
                                       <<SetEvent(tex, res),
                                         CallEvent("a", res.target)>>))
                  /\ ret' = NoRet
             ELSE /\ stack' = NoteNested(stack)
                  /\ ret' = Return("with_texture_canvas", "Err",
                                   map_err(res.error), res.error, target,
                                   pairs, <<SetEvent(tex, res)>>, FALSE)
    /\ UNCHANGED <<targetSupported, unwinding, cfgVars, nonTargetVars>>

\* Canvas::with_texture_canvas, from the return of the closure
with_texture_canvas_return ==
    /\ ~unwinding
    /\ stack # <<>>
    /\ Top.fn = "with_texture_canvas"
    /\ \E outcome \in SetRenderTargetOutcomes(Top.saved) :
          LET res == set_raw_target(target, Top.saved, outcome)
              calls == Append(Top.calls, SetEvent(Top.saved, res))
          IN
          /\ target' = res.target
          /\ stack' = Pop
          /\ ret' = IF res.ok
                    THEN Return(Top.fn, "Ok", "none", "none", Top.entry,
                                Top.pairs, calls, Top.nested)
                    ELSE Return(Top.fn, "Err", map_err(res.error), res.error,
                                Top.entry, Top.pairs, calls, Top.nested)
    /\ UNCHANGED <<targetSupported, unwinding, cfgVars, nonTargetVars>>

\* the target with_multiple_texture_canvas binds once the iteration is over:
\* the one read by get_raw_target on entry, or, in the unsafe_textures
\* build, ptr::null_mut()
reset_target(cur) ==
    IF unsafe_textures THEN NULL ELSE get_raw_target(cur)

\* the i-th item of the `textures` iterator, taken in reverse
textures_reversed(pairs, i) == pairs[Len(pairs) + 1 - i]

\* the i-th item of the `textures` iterator
textures_next(pairs, i) == pairs[i]

\* Canvas::with_multiple_texture_canvas, up to the first invocation of the
\* closure (or to the end, if the iterator is empty or the first set fails)
with_multiple_texture_canvas(pairs) ==
    /\ CanCall
    /\ \A i \in 1..Len(pairs) : pairs[i].tex \notin Borrowed
    /\ LET saved == reset_target(target)
           first == IF pairs = <<>> THEN saved
                    ELSE textures_next(pairs, 1).tex
       IN
       \E outcome \in SetRenderTargetOutcomes(first) :
          LET res == set_raw_target(target, first, outcome) IN
          /\ target' = res.target
          /\ IF pairs # <<>> /\ res.ok
             THEN /\ stack' = Append(NoteNested(stack),
                                 Frame("with_multiple_texture_canvas", target,
                                       saved, pairs,
                                       <<SetEvent(first, res),
                                         CallEvent(textures_next(pairs, 1).tag,
                                                   res.target)>>))
                  /\ ret' = NoRet
             ELSE /\ stack' = NoteNested(stack)
                  /\ ret' = Return("with_multiple_texture_canvas",
                                   IF res.ok THEN "Ok" ELSE "Err",
                                   IF res.ok THEN "none" ELSE map_err(res.error),
                                   res.error, target, pairs,
                                   <<SetEvent(first, res)>>, FALSE)
    /\ UNCHANGED <<targetSupported, unwinding, cfgVars, nonTargetVars>>

\* a loop that binds the saved target again before giving up
with_multiple_texture_canvas_return_restoring ==
    /\ ~unwinding
    /\ stack # <<>>
    /\ Top.fn = "with_multiple_texture_canvas"
    /\ LET more == Top.idx < Len(Top.pairs)
           nxt == IF more THEN textures_next(Top.pairs, Top.idx + 1).tex
                  ELSE Top.saved
       IN
       \E outcome \in SetRenderTargetOutcomes(nxt) :
          LET res == set_raw_target(target, nxt, outcome)
              back == set_raw_target(target, Top.saved, "ok")
              calls == IF more /\ ~res.ok
                       THEN Top.calls \o <<SetEvent(nxt, res),
                                           SetEvent(Top.saved, back)>>
                       ELSE Append(Top.calls, SetEvent(nxt, res))
          IN
          /\ target' = IF more /\ ~res.ok THEN back.target ELSE res.target
          /\ IF more /\ res.ok
             THEN /\ stack' = [stack EXCEPT ![Len(stack)] =
                                  [@ EXCEPT !.idx = @ + 1,
                                            !.calls = Append(calls,
                                                CallEvent(
                                                  textures_next(Top.pairs,
                                                                Top.idx + 1).tag,
                                                  res.target))]]
                  /\ ret' = NoRet
             ELSE /\ stack' = Pop
                  /\ ret' = Return(Top.fn,
                                   IF res.ok THEN "Ok" ELSE "Err",
                                   IF res.ok THEN "none" ELSE map_err(res.error),
                                   res.error, Top.entry, Top.pairs, calls,
                                   Top.nested)
    /\ UNCHANGED <<targetSupported, unwinding, cfgVars, nonTargetVars>>

\* Canvas::with_multiple_texture_canvas, from the return of the closure: the
\* next iteration, or the reset of the target when the iterator is exhausted
with_multiple_texture_canvas_return ==
    /\ ~unwinding
    /\ stack # <<>>
    /\ Top.fn = "with_multiple_texture_canvas"
    /\ LET more == Top.idx < Len(Top.pairs)
           nxt == IF more THEN textures_next(Top.pairs, Top.idx + 1).tex
                  ELSE Top.saved
       IN
       \E outcome \in SetRenderTargetOutcomes(nxt) :
          LET res == set_raw_target(target, nxt, outcome)
              calls == Append(Top.calls, SetEvent(nxt, res))
          IN
          /\ target' = res.target
          /\ IF more /\ res.ok
             THEN /\ stack' = [stack EXCEPT ![Len(stack)] =
                                  [@ EXCEPT !.idx = @ + 1,
                                            !.calls = Append(calls,
                                                CallEvent(
                                                  textures_next(Top.pairs,
                                                                Top.idx + 1).tag,
                                                  res.target))]]
                  /\ ret' = NoRet
             ELSE /\ stack' = Pop
                  /\ ret' = Return(Top.fn,
                                   IF res.ok THEN "Ok" ELSE "Err",
                                   IF res.ok THEN "none" ELSE map_err(res.error),
                                   res.error, Top.entry, Top.pairs, calls,
                                   Top.nested)
    /\ UNCHANGED <<targetSupported, unwinding, cfgVars, nonTargetVars>>

\* the closure of the innermost call panics
closure_panics ==
    /\ ~unwinding
    /\ stack # <<>>
    /\ unwinding' = TRUE
    /\ ret' = NoRet
    /\ UNCHANGED <<targetSupported, target, stack, cfgVars, nonTargetVars>>

\* a scope guard that would bind the saved target again during unwinding
unwind_with_guard(fr, cur) ==
    [target |-> fr.saved,
     calls |-> Append(fr.calls, [op |-> "set", tex |-> fr.saved, ok |-> TRUE])]

\* with_texture_canvas / with_multiple_texture_canvas unwound by a panic of
\* the closure: neither holds a value whose Drop would touch the target
unwind(fr, cur) ==
    [target |-> cur, calls |-> fr.calls]

\* the panic leaves the innermost call; the caller (the enclosing closure
\* or the program) may catch it with catch_unwind or let it propagate
panic_propagates ==
    /\ unwinding
    /\ stack # <<>>
    /\ LET u == unwind(Top, target) IN
       /\ target' = u.target
       /\ ret' = Return(Top.fn, "panic", "none", "none", Top.entry, Top.pairs,
                        u.calls, Top.nested)
    /\ stack' = Pop
    /\ \E caught \in BOOLEAN : unwinding' = (Pop # <<>> /\ ~caught)
    /\ UNCHANGED <<targetSupported, cfgVars, nonTargetVars>>

TargetNext ==
    \/ \E tex \in TargetTextures : with_texture_canvas(tex)
    \/ with_texture_canvas_return
    \/ \E pairs \in PairLists : with_multiple_texture_canvas(pairs)
    \/ with_multiple_texture_canvas_return
    \/ closure_panics
    \/ panic_propagates

InitTarget ==
    /\ unsafe_textures \in BOOLEAN
    /\ targetSupported \in BOOLEAN
    /\ target = NULL
    /\ stack = <<>>
    /\ unwinding = FALSE
    /\ ret = NoRet
    /\ LifeInit
    /\ IterIdle
    /\ LockIdle
    /\ ValIdle

SpecTarget == InitTarget /\ [][TargetNext]_vars

\* ------------------------------------------------------------------------
\* Render-target claims
\* ------------------------------------------------------------------------
IsWtc(r) == r.fn = "with_texture_canvas"
IsWmtc(r) == r.fn = "with_multiple_texture_canvas"

\* C4: with_texture_canvas invokes f with the texture bound and an Ok return
\* leaves the entry target bound; at any depth of nesting, every call of
\* either kind made from inside f that returns Ok has bound again the target
\* of the level around it, so f goes on with its texture bound.
C4_TargetRestoredAtEveryLevel ==
    /\ \A i \in 1..Len(stack) :
           IsWtc(stack[i]) => stack[i].calls[2].target = stack[i].pairs[1].tex
    /\ (IsWtc(ret) /\ ret.result = "Ok") => target = ret.entry
    /\ (ret.fn # "none" /\ ret.result = "Ok" /\ stack # <<>> /\ IsWtc(Top))
           => target = ret.entry

\* C5: with_texture_canvas leaves the entry target bound also when the
\* closure panics.
C5_RestoredOnPanic ==
    (IsWtc(ret) /\ ret.result = "panic") => target = ret.entry

\* C5 as amended: the entry target is bound again when the closure returns
\* and the call returns Ok; when the closure panics the call makes no
\* set-target call after invoking it, so the target stays as the closure
\* left it (the texture, if f made no nested call).
C5_NoRestoreOnPanic ==
    /\ (IsWtc(ret) /\ ret.result = "Ok") => target = ret.entry
    /\ (IsWtc(ret) /\ ret.result = "panic") =>
           /\ Len(ret.calls) = 2
           /\ ret.calls[1] = [op |-> "set", tex |-> ret.pairs[1].tex, ok |-> TRUE]
           /\ ret.calls[2].op = "f"
           /\ ~ret.nested => target = ret.pairs[1].tex

\* a closure panicked and left the texture, not the entry target, bound
C5_Witness ==
    /\ IsWtc(ret)
    /\ ret.result = "panic"
    /\ target = ret.pairs[1].tex
    /\ target # ret.entry

\* set the i-th texture, call f with the i-th tag on that texture, for the
\* first n pairs
ExpectedCalls(pairs, n) ==
    [k \in 1..(2 * n) |->
        IF k % 2 = 1
        THEN [op |-> "set", tex |-> pairs[(k + 1) \div 2].tex, ok |-> TRUE]
        ELSE [op |-> "f", tag |-> pairs[k \div 2].tag,
              target |-> pairs[k \div 2].tex]]

\* C7: when every redirection succeeds with_multiple_texture_canvas calls f
\* once per pair, in order, with the pair's tag and the pair's texture
\* bound; nothing is reset in between and the one restoring set-target call
\* comes after the last invocation.
C7_ClosureOncePerPairInOrder ==
    /\ \A i \in 1..Len(stack) :
           IsWmtc(stack[i]) =>
               stack[i].calls = ExpectedCalls(stack[i].pairs, stack[i].idx)
    /\ (IsWmtc(ret) /\ ret.result = "Ok") =>
           /\ Len(ret.calls) = 2 * Len(ret.pairs) + 1
           /\ SubSeq(ret.calls, 1, 2 * Len(ret.pairs)) =
                  ExpectedCalls(ret.pairs, Len(ret.pairs))
           /\ ret.calls[Len(ret.calls)].op = "set"

\* a call over two pairs with different tags returned Ok
C7_Witness ==
    /\ IsWmtc(ret)
    /\ ret.result = "Ok"
    /\ Len(ret.pairs) = 2
    /\ ret.pairs[1].tag # ret.pairs[2].tag

\* C8: in both builds an Ok return of with_multiple_texture_canvas leaves
\* the entry target bound, also when the entry target is a texture.
C8_MultipleRestoresEntryTarget ==
    (IsWmtc(ret) /\ ret.result = "Ok") => target = ret.entry

\* C9: with_texture_canvas reports TargetRenderError::NotSupported when the
\* renderer cannot render to textures and SdlError for other failures.
C9_NotSupportedIsDistinct ==
    (IsWtc(ret) /\ ret.result = "Err") =>
        ret.err = (IF ret.cause = "not_supported"
                   THEN "NotSupported" ELSE "SdlError")

\* the number of invocations of f a finished call has made
ClosureCalls(r) == Cardinality({i \in 1..Len(r.calls) : r.calls[i].op = "f"})

MaxLockHeight == 3

\* heights of the texture and of the rect argument; NoRect stands for a
\* rect argument of None (the whole texture)
LockHeights == 1..MaxLockHeight
NoRect == 0
LockRects == {NoRect} \cup LockHeights
\* row lengths in bytes SDL_LockTexture may report
LockPitches == {4, 8}
\* what the closure may hand back: a plain value or its own failure value
ClosureResults == {"value", "failure"}

\* formats of the texture: a packed one and a planar one
LockFormats == {"RGBA8888", "IYUV"}

\* PixelFormat::byte_size_from_pitch_and_height: the bytes of `height` rows
\* of `pitch` bytes, with the two quarter-size chroma planes of YV12 / IYUV
byte_size_from_pitch_and_height(format, pitch, height) ==
    IF format \in {"YV12", "IYUV"}
    THEN pitch * height + 2 * (((pitch \div 2) * height) \div 2)
    ELSE pitch * height

\* with_lock sizing the slice by the height of the texture whatever the rect
with_lock_whole_texture(rect, locks, pitch) ==
    /\ lockCall.pc = "idle"
    /\ LET height == lockTexture.height
           size == byte_size_from_pitch_and_height(lockTexture.format, pitch,
                                                   height)
       IN
       IF locks
       THEN /\ lockTexture' = [lockTexture EXCEPT !.locked = TRUE]
            /\ lockCall' = [pc |-> "closure", rect |-> rect, pitch |-> pitch,
                            height |-> height, interior |-> size,
                            events |-> <<"SDL_LockTexture", "func">>]
            /\ lockRet' = NoRet
       ELSE /\ lockCall' = NoLockCall
            /\ lockRet' = [fn |-> "with_lock", result |-> "Err",
                           value |-> "get_error",
                           events |-> <<"SDL_LockTexture">>, locked |-> FALSE]
            /\ UNCHANGED lockTexture
    /\ UNCHANGED <<cfgVars, nonLockVars>>

\* InternalTexture::with_lock, up to the invocation of the closure:
\* SDL_LockTexture, then func(interior, pitch) if it succeeded, `interior`
\* the length of the slice handed to func
with_lock(rect, locks, pitch) ==
    /\ lockCall.pc = "idle"
    /\ LET height == IF rect = NoRect THEN lockTexture.height ELSE rect
           size == byte_size_from_pitch_and_height(lockTexture.format, pitch,
                                                   height)
       IN
       IF locks
       THEN /\ lockTexture' = [lockTexture EXCEPT !.locked = TRUE]
            /\ lockCall' = [pc |-> "closure", rect |-> rect, pitch |-> pitch,
                            height |-> height, interior |-> size,
                            events |-> <<"SDL_LockTexture", "func">>]
            /\ lockRet' = NoRet
       ELSE /\ lockCall' = NoLockCall
            /\ lockRet' = [fn |-> "with_lock", result |-> "Err",
                           value |-> "get_error",
                           events |-> <<"SDL_LockTexture">>, locked |-> FALSE]
            /\ UNCHANGED lockTexture
    /\ UNCHANGED <<cfgVars, nonLockVars>>

\* with_lock left by a panic of func: the statement after the call of func
\* is not reached
panic_exit(events) ==
    [events |-> Append(events, "unwind"), locked |-> TRUE]

\* with_lock left by the return of func: SDL_UnlockTexture, then Ok(result)
return_exit(events) ==
    [events |-> events \o <<"SDL_UnlockTexture", "return">>, locked |-> FALSE]

\* InternalTexture::with_lock, from the return of the closure
with_lock_return(result) ==
    /\ lockCall.pc = "closure"
    /\ LET x == return_exit(lockCall.events) IN
       /\ lockTexture' = [lockTexture EXCEPT !.locked = x.locked]
       /\ lockRet' = [fn |-> "with_lock", result |-> "Ok", value |-> result,
                      events |-> x.events, locked |-> TRUE,
                      pitch |-> lockCall.pitch, height |-> lockCall.height,
                      rect |-> lockCall.rect, interior |-> lockCall.interior]
    /\ lockCall' = NoLockCall
    /\ UNCHANGED <<cfgVars, nonLockVars>>

\* the closure panics and the panic leaves with_lock
with_lock_panic ==
    /\ lockCall.pc = "closure"
    /\ LET x == panic_exit(lockCall.events) IN
       /\ lockTexture' = [lockTexture EXCEPT !.locked = x.locked]
       /\ lockRet' = [fn |-> "with_lock", result |-> "panic", value |-> "none",
                      events |-> x.events, locked |-> TRUE,
                      pitch |-> lockCall.pitch, height |-> lockCall.height,
                      rect |-> lockCall.rect, interior |-> lockCall.interior]
    /\ lockCall' = NoLockCall
    /\ UNCHANGED <<cfgVars, nonLockVars>>

LockNext ==
    \/ \E rect \in LockRects, locks \in BOOLEAN, pitch \in LockPitches :
           with_lock(rect, locks, pitch)
    \/ \E result \in ClosureResults : with_lock_return(result)
    \/ with_lock_panic

InitLock ==
    /\ unsafe_textures \in BOOLEAN
    /\ lockTexture \in [height : LockHeights, format : LockFormats,
                        locked : {FALSE}]
    /\ lockCall = NoLockCall
    /\ lockRet = NoRet
    /\ LifeInit
    /\ IterIdle
    /\ TargetIdle
    /\ ValIdle

SpecLock == InitLock /\ [][LockNext]_vars

Count(events, e) == Cardinality({i \in 1..Len(events) : events[i] = e})

\* C6: whenever SDL_LockTexture succeeded, SDL_UnlockTexture has been called
\* exactly once when control leaves with_lock, by return (with a value or a
\* failure value of f) or by panic, and before the result is handed back.
C6_UnlockedOnEveryExit ==
    (lockRet.fn = "with_lock" /\ lockRet.locked) =>
        /\ Count(lockRet.events, "SDL_UnlockTexture") = 1
        /\ lockRet.events[Len(lockRet.events) - 1] = "SDL_UnlockTexture"
        /\ ~lockTexture.locked

\* C30: if SDL_LockTexture fails, the closure is not invoked,
\* SDL_UnlockTexture is not called and with_lock returns Err with the
\* engine's error; if it succeeds the closure is invoked exactly once, with
\* the texture locked and a slice of byte_size_from_pitch_and_height(pitch, h)
\* bytes, h the rect's height or the texture's height when rect is None, and
\* Ok carries what the closure returned.
C30_ClosureRunsOnlyUnderTheLock ==
    /\ lockCall.pc = "closure" => lockTexture.locked
    /\ (lockRet.fn = "with_lock" /\ ~lockRet.locked) =>
           /\ lockRet.result = "Err" /\ lockRet.value = "get_error"
           /\ Count(lockRet.events, "func") = 0
           /\ Count(lockRet.events, "SDL_UnlockTexture") = 0
    /\ (lockRet.fn = "with_lock" /\ lockRet.locked) =>
           LET h == IF lockRet.rect = NoRect THEN lockTexture.height
                    ELSE lockRet.rect
           IN
           /\ Count(lockRet.events, "func") = 1
           /\ SubSeq(lockRet.events, 1, 2) = <<"SDL_LockTexture", "func">>
           /\ lockRet.interior =
                  byte_size_from_pitch_and_height(lockTexture.format,
                                                  lockRet.pitch, h)
           /\ lockRet.result \in {"Ok", "panic"}
           /\ lockRet.result = "Ok" => lockRet.value \in ClosureResults

\* a rect lower than its planar texture was locked and the closure's value
\* handed back
C30_Witness ==
    /\ lockRet.fn = "with_lock"
    /\ lockRet.locked
    /\ lockRet.result = "Ok"
    /\ lockRet.value = "value"
    /\ lockRet.rect # NoRect
    /\ lockRet.rect < lockTexture.height
    /\ lockTexture.format = "IYUV"
    /\ lockRet.interior = lockRet.pitch * lockRet.rect
                              + 2 * (((lockRet.pitch \div 2) * lockRet.rect) \div 2)

\* ------------------------------------------------------------------------
\* Texture creation
\* ------------------------------------------------------------------------
MaxSmallDim == 3

\* A u32 is kept as two 16-bit limbs, value = hi * Limb + lo, so that the
\* values above the c_int range can be written down.
Limb == 65536
U32(hi, lo) == [hi |-> hi, lo |-> lo]
\* widths and heights tried: the small ones, and those around c_int::MAX
Dims ==
    {U32(0, n) : n \in 0..MaxSmallDim}
    \cup {U32(Limb \div 2 - 1, Limb - 2), U32(Limb \div 2 - 1, Limb - 1),
          U32(Limb \div 2, 0), U32(Limb - 1, Limb - 1)}

IsOdd(v) == v.lo % 2 = 1
FitsCInt(v) == v.hi < Limb \div 2

PixelFormats == {"YV12", "IYUV", "RGB24", "RGBA8888"}
NoFormat == "None"
TextureAccesses == {"Static", "Streaming", "Target"}

\* common::validate_int: the value as a c_int, or an error if it exceeds it
validate_int(value) ==
    IF value.hi >= Limb \div 2
    THEN [ok |-> FALSE, val |-> 0]
    ELSE [ok |-> TRUE, val |-> value.hi * Limb + value.lo]

\* ll_create_texture checking the parity of the width only
ll_create_texture_width_only(pixel_format, access, width, height, native) ==
    LET w == validate_int(width)
        h == validate_int(height)
    IN
    IF ~w.ok THEN [tag |-> "Err", err |-> "WidthOverflows", value |-> width,
                   engine |-> <<>>]
    ELSE IF ~h.ok THEN [tag |-> "Err", err |-> "HeightOverflows",
                        value |-> height, engine |-> <<>>]
    ELSE IF pixel_format \in {"YV12", "IYUV"} /\ w.val % 2 # 0
    THEN [tag |-> "Err", err |-> "WidthMustBeMultipleOfTwoForFormat",
          value |-> width, engine |-> <<>>]
    ELSE [tag |-> "Ok", err |-> "none", value |-> native,
          engine |-> <<[fn |-> "SDL_CreateTexture", format |-> pixel_format,
                        access |-> access, w |-> w.val, h |-> h.val]>>]

\* ll_create_texture validating the height before the width
ll_create_texture_height_first(pixel_format, access, width, height, native) ==
    LET w == validate_int(width)
        h == validate_int(height)
    IN
    IF ~h.ok THEN [tag |-> "Err", err |-> "HeightOverflows",
                   value |-> height, engine |-> <<>>]
    ELSE IF ~w.ok THEN [tag |-> "Err", err |-> "WidthOverflows",
                        value |-> width, engine |-> <<>>]
    ELSE IF pixel_format \in {"YV12", "IYUV"}
            /\ (w.val % 2 # 0 \/ h.val % 2 # 0)
    THEN [tag |-> "Err", err |-> "WidthMustBeMultipleOfTwoForFormat",
          value |-> width, engine |-> <<>>]
    ELSE [tag |-> "Ok", err |-> "none", value |-> native,
          engine |-> <<[fn |-> "SDL_CreateTexture", format |-> pixel_format,
                        access |-> access, w |-> w.val, h |-> h.val]>>]

\* ll_create_texture asking the engine first and checking the parity after
ll_create_texture_checks_after(pixel_format, access, width, height, native) ==
    LET w == validate_int(width)
        h == validate_int(height)
    IN
    IF ~w.ok THEN [tag |-> "Err", err |-> "WidthOverflows", value |-> width,
                   engine |-> <<>>]
    ELSE IF ~h.ok THEN [tag |-> "Err", err |-> "HeightOverflows",
                        value |-> height, engine |-> <<>>]
    ELSE IF pixel_format \in {"YV12", "IYUV"}
            /\ (w.val % 2 # 0 \/ h.val % 2 # 0)
    THEN [tag |-> "Err", err |-> "WidthMustBeMultipleOfTwoForFormat",
          value |-> width,
          engine |-> <<[fn |-> "SDL_CreateTexture", format |-> pixel_format,
                        access |-> access, w |-> w.val, h |-> h.val]>>]
    ELSE [tag |-> "Ok", err |-> "none", value |-> native,
          engine |-> <<[fn |-> "SDL_CreateTexture", format |-> pixel_format,
                        access |-> access, w |-> w.val, h |-> h.val]>>]

\* ll_create_texture: Ok(raw texture, possibly null) or a validation error
ll_create_texture(pixel_format, access, width, height, native) ==
    LET w == validate_int(width)
        h == validate_int(height)
    IN
    IF ~w.ok THEN [tag |-> "Err", err |-> "WidthOverflows", value |-> width,
                   engine |-> <<>>]
    ELSE IF ~h.ok THEN [tag |-> "Err", err |-> "HeightOverflows",
                        value |-> height, engine |-> <<>>]
    ELSE IF pixel_format \in {"YV12", "IYUV"}
            /\ (w.val % 2 # 0 \/ h.val % 2 # 0)
    THEN [tag |-> "Err", err |-> "WidthMustBeMultipleOfTwoForFormat",
          value |-> width, engine |-> <<>>]
    ELSE [tag |-> "Ok", err |-> "none", value |-> native,
          engine |-> <<[fn |-> "SDL_CreateTexture", format |-> pixel_format,
                        access |-> access, w |-> w.val, h |-> h.val]>>]

\* TextureCreator::create_texture (and Canvas::create_texture with
\* unsafe_textures): the default format stands in for None, a validation
\* error is passed on, a null texture is Err(SdlError)
create_texture_result(default_format, format, access, width, height, native) ==
    LET pixel_format == IF format = NoFormat THEN default_format ELSE format
        result == ll_create_texture(pixel_format, access, width, height, native)
    IN
    IF result.tag = "Err" THEN result
    ELSE IF result.value = "null"
    THEN [result EXCEPT !.tag = "Err", !.err = "SdlError",
                        !.value = "get_error"]
    ELSE [result EXCEPT !.value = "Texture"]

CreateTextureInputs ==
    [op : {"create_texture"},
     default_pixel_format : PixelFormats,
     format : PixelFormats \cup {NoFormat},
     access : TextureAccesses,
     width : Dims,
     height : Dims,
     native : {"null", "texture"}]

\* the call is made with the arguments drawn in the initial state
call_create_texture ==
    /\ vin.op = "create_texture"
    /\ vout = NoRet
    /\ vout' = create_texture_result(vin.default_pixel_format, vin.format,
                                     vin.access, vin.width, vin.height,
                                     vin.native)
    /\ UNCHANGED <<vin, cfgVars, nonValVars>>

ValNext ==
    \/ call_create_texture

InitVal ==
    /\ unsafe_textures \in BOOLEAN
    /\ vin \in CreateTextureInputs
    /\ vout = NoRet
    /\ LifeInit
    /\ IterIdle
    /\ TargetIdle
    /\ LockIdle

SpecVal == InitVal /\ [][ValNext]_vars

\* the format the texture is created with
ChosenFormat ==
    IF vin.format = NoFormat THEN vin.default_pixel_format ELSE vin.format

Done(op) == vin.op = op /\ vout # NoRet

\* C10: with width and height in the c_int range, create_texture in format
\* YV12 or IYUV returns the multiple-of-two error iff the width or the height
\* is odd, and with both even it is Ok iff the engine returns a texture; in
\* any other format it never returns the multiple-of-two error.
C10_ParityErrorIffOddDimension ==
    (Done("create_texture") /\ FitsCInt(vin.width) /\ FitsCInt(vin.height)) =>
        IF ChosenFormat \in {"YV12", "IYUV"}
        THEN /\ (vout.err = "WidthMustBeMultipleOfTwoForFormat")
                    <=> (IsOdd(vin.width) \/ IsOdd(vin.height))
             /\ (~IsOdd(vin.width) /\ ~IsOdd(vin.height)) =>
                    ((vout.tag = "Ok") <=> (vin.native = "texture"))
        ELSE vout.err # "WidthMustBeMultipleOfTwoForFormat"

\* a YV12 texture of even width and odd height was refused
C10_Witness ==
    /\ Done("create_texture")
    /\ ChosenFormat = "YV12"
    /\ FitsCInt(vin.width) /\ ~IsOdd(vin.width)
    /\ FitsCInt(vin.height) /\ IsOdd(vin.height)
    /\ vout.err = "WidthMustBeMultipleOfTwoForFormat"

\* C11: create_texture returns WidthOverflows(width) when the width exceeds
\* c_int::MAX, otherwise HeightOverflows(height) when the height does, both
\* ahead of the parity check, and the engine is only ever called with the
\* caller's width and height, both within 0..=c_int::MAX.
C11_OverflowCheckedBeforeEngine ==
    Done("create_texture") =>
        /\ ~FitsCInt(vin.width) =>
               /\ vout.tag = "Err" /\ vout.err = "WidthOverflows"
               /\ vout.value = vin.width
        /\ (FitsCInt(vin.width) /\ ~FitsCInt(vin.height)) =>
               /\ vout.tag = "Err" /\ vout.err = "HeightOverflows"
               /\ vout.value = vin.height
        /\ \A i \in 1..Len(vout.engine) :
               /\ FitsCInt(vin.width) /\ FitsCInt(vin.height)
               /\ vout.engine[i].w = vin.width.hi * Limb + vin.width.lo
               /\ vout.engine[i].h = vin.height.hi * Limb + vin.height.lo
               /\ vout.engine[i].w \in 0..2147483647
               /\ vout.engine[i].h \in 0..2147483647

\* an odd width above c_int::MAX with a height above it too, in a planar
\* format: the width overflow is what is reported
C11_Witness ==
    /\ Done("create_texture")
    /\ ChosenFormat = "IYUV"
    /\ ~FitsCInt(vin.width) /\ IsOdd(vin.width)
    /\ ~FitsCInt(vin.height)
    /\ vout.err = "WidthOverflows"
    /\ vout.engine = <<>>

\* C28: whenever create_texture fails with
\* WidthMustBeMultipleOfTwoForFormat(v, format) the carried v is odd, also
\* when the width is even and only the height is odd.
C28_ParityErrorCarriesOddValue ==
    (Done("create_texture")
        /\ vout.err = "WidthMustBeMultipleOfTwoForFormat") => IsOdd(vout.value)

\* ------------------------------------------------------------------------
\* Texture update
\* ------------------------------------------------------------------------
MaxSmallPitch == 3
MaxRectCoord == 2
MaxRectSize == 2
MaxTexSize == 3
MaxPlaneLen == 6

\* A usize of a 64-bit target as four 16-bit limbs, l3 the most significant.
USize(l3, l2, l1, l0) == [l3 |-> l3, l2 |-> l2, l1 |-> l1, l0 |-> l0]
SmallUSize(n) == USize(0, 0, 0, n)
\* `value as u32`: the low 32 bits
AsU32(value) == U32(value.l1, value.l0)
\* the value is at most c_int::MAX, and then its number
USizeFitsCInt(value) ==
    value.l3 = 0 /\ value.l2 = 0 /\ value.l1 < Limb \div 2
USizeToInt(value) == value.l1 * Limb + value.l0

\* pitches tried: the small ones, those around c_int::MAX and u32::MAX, and
\* those of 2^32 and more
Pitches ==
    {SmallUSize(n) : n \in 0..MaxSmallPitch}
    \cup {USize(0, 0, Limb \div 2 - 1, Limb - 1), USize(0, 0, Limb \div 2, 0),
          USize(0, 0, Limb - 1, Limb - 1), USize(0, 1, 0, 0),
          USize(0, 1, 0, 3), USize(0, 1, 0, 4)}

\* Option<Rect>: x and y are i32, width and height nonzero u32
RectNone == [some |-> FALSE, x |-> 0, y |-> 0, w |-> 0, h |-> 0]
RectSome(x, y, w, h) == [some |-> TRUE, x |-> x, y |-> y, w |-> w, h |-> h]
Rects ==
    {RectSome(x, y, w, h) : x, y \in -MaxRectCoord..MaxRectCoord,
                            w, h \in 1..MaxRectSize}

\* the % of i32: the remainder takes the sign of the dividend
Rem(a, b) == IF a >= 0 THEN a % b ELSE 0 - ((0 - a) % b)

\* Err(e) of a validated call: the engine has not been called
Err(e, value) == [tag |-> "Err", err |-> e, value |-> value, engine |-> <<>>]

\* the parity checks of update written as `% 2 == 1`
update_positive_remainder(format, rect, pitch, native) ==
    LET p == validate_int(AsU32(pitch)) IN
    IF format \in {"YV12", "IYUV"} /\ rect.some /\ Rem(rect.x, 2) = 1
    THEN Err("XMustBeMultipleOfTwoForFormat", rect.x)
    ELSE IF format \in {"YV12", "IYUV"} /\ rect.some /\ Rem(rect.y, 2) = 1
    THEN Err("YMustBeMultipleOfTwoForFormat", rect.y)
    ELSE IF format \in {"YV12", "IYUV"} /\ rect.some /\ rect.w % 2 = 1
    THEN Err("WidthMustBeMultipleOfTwoForFormat", rect.w)
    ELSE IF format \in {"YV12", "IYUV"} /\ rect.some /\ rect.h % 2 = 1
    THEN Err("HeightMustBeMultipleOfTwoForFormat", rect.h)
    ELSE IF format \in {"YV12", "IYUV"} /\ pitch.l0 % 2 = 1
    THEN Err("PitchMustBeMultipleOfTwoForFormat", pitch)
    ELSE IF ~p.ok THEN Err("PitchOverflows", pitch)
    ELSE [tag |-> IF native THEN "Ok" ELSE "Err",
          err |-> IF native THEN "none" ELSE "SdlError",
          value |-> IF native THEN "unit" ELSE "get_error",
          engine |-> <<[fn |-> "SDL_UpdateTexture", rect |-> rect,
                        pitch |-> p.val]>>]

\* InternalTexture::update: the parity checks of the planar formats, the
\* pitch validation, then SDL_UpdateTexture, whose answer is `native`
update(format, rect, pitch, native) ==
    LET p == validate_int(AsU32(pitch)) IN
    IF format \in {"YV12", "IYUV"} /\ rect.some /\ Rem(rect.x, 2) # 0
    THEN Err("XMustBeMultipleOfTwoForFormat", rect.x)
    ELSE IF format \in {"YV12", "IYUV"} /\ rect.some /\ Rem(rect.y, 2) # 0
    THEN Err("YMustBeMultipleOfTwoForFormat", rect.y)
    ELSE IF format \in {"YV12", "IYUV"} /\ rect.some /\ rect.w % 2 # 0
    THEN Err("WidthMustBeMultipleOfTwoForFormat", rect.w)
    ELSE IF format \in {"YV12", "IYUV"} /\ rect.some /\ rect.h % 2 # 0
    THEN Err("HeightMustBeMultipleOfTwoForFormat", rect.h)
    ELSE IF format \in {"YV12", "IYUV"} /\ pitch.l0 % 2 # 0
    THEN Err("PitchMustBeMultipleOfTwoForFormat", pitch)
    ELSE IF ~p.ok THEN Err("PitchOverflows", pitch)
    ELSE [tag |-> IF native THEN "Ok" ELSE "Err",
          err |-> IF native THEN "none" ELSE "SdlError",
          value |-> IF native THEN "unit" ELSE "get_error",
          engine |-> <<[fn |-> "SDL_UpdateTexture", rect |-> rect,
                        pitch |-> p.val]>>]

UpdateInputs ==
    [op : {"update"},
     format : PixelFormats,
     rect : Rects \cup {RectNone},
     pitch : Pitches,
     native : BOOLEAN]

call_update ==
    /\ vin.op = "update"
    /\ vout = NoRet
    /\ vout' = update(vin.format, vin.rect, vin.pitch, vin.native)
    /\ UNCHANGED <<vin, cfgVars, nonValVars>>

\* usize arithmetic of the plane-length checks: wrapping `value * n` for a
\* small n, and `value / 2`
USizeMul(value, n) ==
    LET p0 == value.l0 * n
        p1 == value.l1 * n + p0 \div Limb
        p2 == value.l2 * n + p1 \div Limb
        p3 == value.l3 * n + p2 \div Limb
    IN USize(p3 % Limb, p2 % Limb, p1 % Limb, p0 % Limb)

USizeHalf(value) ==
    USize(value.l3 \div 2,
          ((value.l3 % 2) * Limb + value.l2) \div 2,
          ((value.l2 % 2) * Limb + value.l1) \div 2,
          ((value.l1 % 2) * Limb + value.l0) \div 2)

Max(a, b) == IF a >= b THEN a ELSE b
Min(a, b) == IF a <= b THEN a ELSE b

\* Rect::intersection: the common part of two rectangles, None when they
\* have no point in common
rect_intersection(a, b) ==
    LET x1 == Max(a.x, b.x)
        y1 == Max(a.y, b.y)
        x2 == Min(a.x + a.w, b.x + b.w)
        y2 == Min(a.y + a.h, b.y + b.h)
    IN IF x2 > x1 /\ y2 > y1 THEN RectSome(x1, y1, x2 - x1, y2 - y1)
       ELSE RectNone

\* `inside` taken as: the rect meets the texture
inside_if_overlapping(r, width_, height_) ==
    rect_intersection(r, RectSome(0, 0, width_, height_)).some

\* update_yuv: the rect lies inside the texture when its intersection with
\* Rect::new(0, 0, width_, height_) is the rect itself
inside(r, width_, height_) ==
    LET i == rect_intersection(r, RectSome(0, 0, width_, height_))
    IN IF i.some THEN i = r ELSE FALSE

\* update_yuv: the length each plane must have, as the code compares it
y_plane_length(y_pitch, height) == USizeMul(y_pitch, height)
u_plane_length(u_pitch, height) == USizeHalf(USizeMul(u_pitch, height))
v_plane_length(v_pitch, height) == USizeHalf(USizeMul(v_pitch, height))

InvalidPlaneLength(plane, length, pitch, height) ==
    Err("InvalidPlaneLength",
        [plane |-> plane, length |-> length, pitch |-> pitch,
         height |-> height])

PitchOverflows(plane, value) ==
    Err("PitchOverflows", [plane |-> plane, value |-> value])

\* InternalTexture::update_yuv on a texture width_ x height_: rect parity,
\* rect inside the texture, plane lengths, pitch validation, and then
\* SDL_UpdateYUVTexture, whose answer is `native`
update_yuv(rect, width_, height_, y_plane, y_pitch, u_plane, u_pitch, v_plane, v_pitch, native) ==
    LET height == IF rect.some THEN rect.h ELSE height_
        y == validate_int(AsU32(y_pitch))
        u == validate_int(AsU32(u_pitch))
        v == validate_int(AsU32(v_pitch))
    IN
    IF rect.some /\ Rem(rect.x, 2) # 0
    THEN Err("XMustBeMultipleOfTwoForFormat", rect.x)
    ELSE IF rect.some /\ Rem(rect.y, 2) # 0
    THEN Err("YMustBeMultipleOfTwoForFormat", rect.y)
    ELSE IF rect.some /\ rect.w % 2 # 0
    THEN Err("WidthMustBeMultipleOfTwoForFormat", rect.w)
    ELSE IF rect.some /\ rect.h % 2 # 0
    THEN Err("HeightMustBeMultipleOfTwoForFormat", rect.h)
    ELSE IF rect.some /\ ~inside(rect, width_, height_)
    THEN Err("RectNotInsideTexture", rect)
    ELSE IF y_plane # y_plane_length(y_pitch, height)
    THEN InvalidPlaneLength("y", y_plane, y_pitch, height)
    ELSE IF u_plane # u_plane_length(u_pitch, height)
    THEN InvalidPlaneLength("u", u_plane, u_pitch, height \div 2)
    ELSE IF v_plane # v_plane_length(v_pitch, height)
    THEN InvalidPlaneLength("v", v_plane, v_pitch, height \div 2)
    ELSE IF ~y.ok THEN PitchOverflows("y", y_pitch)
    ELSE IF ~u.ok THEN PitchOverflows("u", u_pitch)
    ELSE IF ~v.ok THEN PitchOverflows("v", v_pitch)
    ELSE [tag |-> IF native THEN "Ok" ELSE "Err",
          err |-> IF native THEN "none" ELSE "SdlError",
          value |-> IF native THEN "unit" ELSE "get_error",
          engine |-> <<[fn |-> "SDL_UpdateYUVTexture", rect |-> rect,
                        y_pitch |-> y.val, u_pitch |-> u.val,
                        v_pitch |-> v.val]>>]

TexSizes == 1..MaxTexSize

\* update_yuv calls with every rect on every texture size, planes of pitch 1
UpdateYuvRectInputs ==
    [op : {"update_yuv"},
     rect : Rects \cup {RectNone},
     width : TexSizes,
     height : TexSizes,
     y_plane : {SmallUSize(n) : n \in 1..MaxTexSize},
     y_pitch : {SmallUSize(1)},
     u_plane : {SmallUSize(n) : n \in 0..1},
     u_pitch : {SmallUSize(1)},
     v_plane : {SmallUSize(n) : n \in 0..1},
     v_pitch : {SmallUSize(1)},
     native : BOOLEAN]

\* pitches and plane lengths tried, small ones and one above u32::MAX
YuvPitches == {SmallUSize(1), SmallUSize(2), USize(0, 1, 0, 2)}
YPlaneLengths == {SmallUSize(n) : n \in 0..MaxPlaneLen} \cup {USize(0, 1, 0, 2)}
UVPlaneLengths == {SmallUSize(n) : n \in 0..(MaxPlaneLen \div 2)}

\* update_yuv calls with every plane on square textures, whole or a 2 x 2 rect
UpdateYuvPlaneInputs ==
    {[op |-> "update_yuv", rect |-> r, width |-> n, height |-> n,
      y_plane |-> yl, y_pitch |-> yp, u_plane |-> ul, u_pitch |-> up,
      v_plane |-> vl, v_pitch |-> vp, native |-> b] :
        r \in {RectNone, RectSome(0, 0, 2, 2)}, n \in TexSizes,
        yl \in YPlaneLengths, yp \in YuvPitches,
        ul \in UVPlaneLengths, up \in YuvPitches,
        vl \in UVPlaneLengths, vp \in YuvPitches, b \in BOOLEAN}

call_update_yuv ==
    /\ vin.op = "update_yuv"
    /\ vout = NoRet
    /\ vout' = update_yuv(vin.rect, vin.width, vin.height,
                          vin.y_plane, vin.y_pitch, vin.u_plane, vin.u_pitch,
                          vin.v_plane, vin.v_pitch, vin.native)
    /\ UNCHANGED <<vin, cfgVars, nonValVars>>

UpdateNext ==
    \/ call_update
    \/ call_update_yuv

InitUpdate ==
    /\ unsafe_textures = FALSE
    /\ vin \in UpdateInputs \cup UpdateYuvRectInputs \cup UpdateYuvPlaneInputs
    /\ vout = NoRet
    /\ LifeInit
    /\ IterIdle
    /\ TargetIdle
    /\ LockIdle

SpecUpdate == InitUpdate /\ [][UpdateNext]_vars

\* ------------------------------------------------------------------------
\* Texture update claims
\* ------------------------------------------------------------------------

\* n is odd, negative n included
OddInt(n) == \E k \in -(MaxRectCoord + MaxRectSize)..(MaxRectCoord + MaxRectSize) : n = 2 * k + 1
OddUSize(value) == (value.l0 \div 2) * 2 # value.l0
OddRect(r) == r.some /\ (OddInt(r.x) \/ OddInt(r.y) \/ OddInt(r.w) \/ OddInt(r.h))

\* the engine was called, and with this pitch under field f
EnginePitchIs(f, pitch) ==
    \A i \in 1..Len(vout.engine) :
        USizeFitsCInt(pitch) /\ vout.engine[i][f] = USizeToInt(pitch)

\* C12: update and update_yuv answer a pitch above c_int::MAX (2^32 and more
\* included) with an error and without calling the engine, and the engine
\* never receives a pitch other than the one the caller passed.
C12_OverflowingPitchRejected ==
    /\ Done("update") =>
           /\ ~USizeFitsCInt(vin.pitch) =>
                  (vout.tag = "Err" /\ vout.engine = <<>>)
           /\ EnginePitchIs("pitch", vin.pitch)
    /\ Done("update_yuv") =>
           /\ (~USizeFitsCInt(vin.y_pitch) \/ ~USizeFitsCInt(vin.u_pitch)
                  \/ ~USizeFitsCInt(vin.v_pitch)) =>
                  (vout.tag = "Err" /\ vout.engine = <<>>)
           /\ EnginePitchIs("y_pitch", vin.y_pitch)
           /\ EnginePitchIs("u_pitch", vin.u_pitch)
           /\ EnginePitchIs("v_pitch", vin.v_pitch)

UpdateParityErrors ==
    {"XMustBeMultipleOfTwoForFormat", "YMustBeMultipleOfTwoForFormat",
     "WidthMustBeMultipleOfTwoForFormat",
     "HeightMustBeMultipleOfTwoForFormat",
     "PitchMustBeMultipleOfTwoForFormat"}

\* C13 as stated: update on a YV12 or IYUV texture returns a multiple-of-two
\* error iff the pitch or a component of the given rect is odd, and with all
\* of them even it reaches the engine; on other formats no parity error.
C13_ParityErrorIffOddElseEngine ==
    Done("update") =>
        IF vin.format \in {"YV12", "IYUV"}
        THEN /\ (vout.err \in UpdateParityErrors)
                    <=> (OddUSize(vin.pitch) \/ OddRect(vin.rect))
             /\ ~(OddUSize(vin.pitch) \/ OddRect(vin.rect)) =>
                    vout.engine # <<>>
        ELSE vout.err \notin UpdateParityErrors

\* C13: update on a YV12 or IYUV texture returns a multiple-of-two error iff
\* the pitch or a component of the given rect is odd (negative odd x or y
\* included); with all of them even it reaches the engine when the pitch is
\* at most c_int::MAX and returns PitchOverflows when the pitch is between
\* c_int::MAX + 1 and u32::MAX; on other formats no parity error.
C13_ParityErrorIffOddInRangeEngine ==
    Done("update") =>
        IF vin.format \in {"YV12", "IYUV"}
        THEN /\ (vout.err \in UpdateParityErrors)
                    <=> (OddUSize(vin.pitch) \/ OddRect(vin.rect))
             /\ (~(OddUSize(vin.pitch) \/ OddRect(vin.rect))
                    /\ USizeFitsCInt(vin.pitch)) => vout.engine # <<>>
             /\ (~(OddUSize(vin.pitch) \/ OddRect(vin.rect))
                    /\ ~USizeFitsCInt(vin.pitch) /\ vin.pitch.l3 = 0
                    /\ vin.pitch.l2 = 0) =>
                    (vout.err = "PitchOverflows" /\ vout.engine = <<>>)
        ELSE vout.err \notin UpdateParityErrors

\* a rect at a negative odd x, everything else even, on a YV12 texture
C13_Witness ==
    /\ Done("update")
    /\ vin.format = "YV12"
    /\ vin.rect.some /\ vin.rect.x = -1 /\ ~OddInt(vin.rect.y)
    /\ ~OddInt(vin.rect.w) /\ ~OddInt(vin.rect.h) /\ ~OddUSize(vin.pitch)
    /\ vout.err = "XMustBeMultipleOfTwoForFormat"

\* the rect lies within the texture rectangle (0, 0, W, H)
Contained(r, W, H) ==
    r.w > 0 /\ r.h > 0 /\ r.x >= 0 /\ r.y >= 0 /\ r.x + r.w <= W /\ r.y + r.h <= H

\* C14: update_yuv with a rect returns the X/Y/Width/Height multiple-of-two
\* error of the first odd component; with none odd it returns
\* RectNotInsideTexture iff the rect is not contained in (0, 0, W, H); with
\* rect = None neither applies; the engine never gets an odd or outside rect.
C14_RectEvenAndInsideTexture ==
    Done("update_yuv") =>
        LET r == vin.rect
            rectErrors == (UpdateParityErrors \cup {"RectNotInsideTexture"})
                              \ {"PitchMustBeMultipleOfTwoForFormat"}
        IN
        /\ ~r.some => vout.err \notin rectErrors
        /\ r.some =>
              /\ OddInt(r.x) => vout.err = "XMustBeMultipleOfTwoForFormat"
              /\ (~OddInt(r.x) /\ OddInt(r.y)) =>
                     vout.err = "YMustBeMultipleOfTwoForFormat"
              /\ (~OddInt(r.x) /\ ~OddInt(r.y) /\ OddInt(r.w)) =>
                     vout.err = "WidthMustBeMultipleOfTwoForFormat"
              /\ (~OddInt(r.x) /\ ~OddInt(r.y) /\ ~OddInt(r.w) /\ OddInt(r.h)) =>
                     vout.err = "HeightMustBeMultipleOfTwoForFormat"
              /\ ~OddRect(r) =>
                     ((vout.err = "RectNotInsideTexture")
                          <=> ~Contained(r, vin.width, vin.height))
        /\ \A i \in 1..Len(vout.engine) :
              /\ vout.engine[i].rect = r
              /\ r.some => (~OddRect(r) /\ Contained(r, vin.width, vin.height))

\* an even rect that overlaps the texture and reaches beyond its edge
C14_Witness ==
    /\ Done("update_yuv")
    /\ vin.rect.some /\ ~OddRect(vin.rect)
    /\ vin.rect.x = 0 /\ vin.rect.y = 0 /\ vin.rect.w = 2 /\ vin.rect.h = 2
    /\ vin.width = 1 /\ vin.height >= 2
    /\ vout.err = "RectNotInsideTexture"

\* C15: update_yuv passes the plane checks only if y_plane is y_pitch * h,
\* u_plane is u_pitch * (h / 2) and v_plane is v_pitch * (h / 2) bytes long,
\* h the rect's height or the texture's for rect = None, for every h; the
\* first plane that mismatches, in the order y, u, v, is the one reported.
C15_PlaneLengthsByChromaRows ==
    (Done("update_yuv")
        /\ vout.err \notin (UpdateParityErrors \cup {"RectNotInsideTexture"})) =>
        LET h == IF vin.rect.some THEN vin.rect.h ELSE vin.height
            yOk == vin.y_plane = USizeMul(vin.y_pitch, h)
            uOk == vin.u_plane = USizeMul(vin.u_pitch, h \div 2)
            vOk == vin.v_plane = USizeMul(vin.v_pitch, h \div 2)
            named == IF vout.err = "InvalidPlaneLength"
                     THEN vout.value.plane ELSE "none"
        IN
        /\ named = "none" => (yOk /\ uOk /\ vOk)
        /\ ~yOk => named = "y"
        /\ (yOk /\ ~uOk) => named = "u"
        /\ (yOk /\ uOk /\ ~vOk) => named = "v"
        /\ named \in {"u", "v"} => vout.value.height = h \div 2

\* ------------------------------------------------------------------------
\* Validation failures and the engine
\* ------------------------------------------------------------------------
ValidateNext ==
    \/ call_create_texture
    \/ call_update
    \/ call_update_yuv

InitValidate ==
    \/ InitVal
    \/ InitUpdate

SpecValidate == InitValidate /\ [][ValidateNext]_vars

\* the errors of TextureValueError, UpdateTextureError and
\* UpdateTextureYUVError that stand for a refused argument
ValidationErrors ==
    {"WidthOverflows", "HeightOverflows", "PitchOverflows",
     "XMustBeMultipleOfTwoForFormat", "YMustBeMultipleOfTwoForFormat",
     "WidthMustBeMultipleOfTwoForFormat", "HeightMustBeMultipleOfTwoForFormat",
     "PitchMustBeMultipleOfTwoForFormat", "InvalidPlaneLength",
     "RectNotInsideTexture"}

\* C29: whenever create_texture, update or update_yuv returns one of its
\* validation errors, no SDL_CreateTexture, SDL_UpdateTexture or
\* SDL_UpdateYUVTexture call has been made in that invocation.
C29_ValidationFailureMakesNoEngineCall ==
    (vout # NoRet /\ vout.tag = "Err" /\ vout.err \in ValidationErrors) =>
        vout.engine = <<>>

\* create_texture refused an odd planar texture without asking the engine
C29_Witness ==
    /\ Done("create_texture")
    /\ vout.tag = "Err"
    /\ vout.err = "WidthMustBeMultipleOfTwoForFormat"
    /\ vout.engine = <<>>

\* ------------------------------------------------------------------------
\* ClippingRect
\* ------------------------------------------------------------------------
MaxClipCoord == 2
MaxClipSize == 2

\* enum ClippingRect { Some(Rect), Zero, None }
ClipSome(r) == [kind |-> "Some", rect |-> r]
ClipZero == [kind |-> "Zero", rect |-> RectNone]
ClipNone == [kind |-> "None", rect |-> RectNone]

ClipRects ==
    {RectSome(x, y, w, h) : x, y \in 0..MaxClipCoord, w, h \in 1..MaxClipSize}
ClippingRects == {ClipSome(r) : r \in ClipRects} \cup {ClipZero, ClipNone}

\* intersection keeping self when the other is Zero
intersection_zero_keeps_self(self, other) ==
    IF self.kind = "Zero" THEN ClipZero
    ELSE IF self.kind = "None" THEN other
    ELSE IF other.kind = "Zero" THEN self
    ELSE IF other.kind = "None" THEN self
    ELSE LET v == rect_intersection(self.rect, other.rect)
         IN IF v.some THEN ClipSome(v) ELSE ClipZero

\* intersection answering None for self = None
intersection_none_stays(self, other) ==
    IF self.kind = "Zero" THEN ClipZero
    ELSE IF self.kind = "None" THEN ClipNone
    ELSE IF other.kind = "Zero" THEN ClipZero
    ELSE IF other.kind = "None" THEN self
    ELSE LET v == rect_intersection(self.rect, other.rect)
         IN IF v.some THEN ClipSome(v) ELSE ClipZero

\* intersection answering None for two rects that do not meet
intersection_disjoint_is_none(self, other) ==
    IF self.kind = "Zero" THEN ClipZero
    ELSE IF self.kind = "None" THEN other
    ELSE IF other.kind = "Zero" THEN ClipZero
    ELSE IF other.kind = "None" THEN self
    ELSE LET v == rect_intersection(self.rect, other.rect)
         IN IF v.some THEN ClipSome(v) ELSE ClipNone

\* ClippingRect::intersection
intersection(self, other) ==
    IF self.kind = "Zero" THEN ClipZero
    ELSE IF self.kind = "None" THEN other
    ELSE IF other.kind = "Zero" THEN ClipZero
    ELSE IF other.kind = "None" THEN self
    ELSE LET v == rect_intersection(self.rect, other.rect)
         IN IF v.some THEN ClipSome(v) ELSE ClipZero

\* intersect_rect reading a None position as "no clipping"
intersect_rect_none_is_identity(self, position) ==
    IF position.some
    THEN IF self.kind = "Some"
         THEN LET v == rect_intersection(self.rect, position)
              IN IF v.some THEN ClipSome(v) ELSE ClipZero
         ELSE IF self.kind = "Zero" THEN ClipZero
         ELSE ClipSome(position)
    ELSE self

\* ClippingRect::intersect_rect, position an Option<Rect>
intersect_rect(self, position) ==
    IF position.some
    THEN IF self.kind = "Some"
         THEN LET v == rect_intersection(self.rect, position)
              IN IF v.some THEN ClipSome(v) ELSE ClipZero
         ELSE IF self.kind = "Zero" THEN ClipZero
         ELSE ClipSome(position)
    ELSE ClipZero

ClipInputs ==
    [op : {"intersection"}, self : ClippingRects, other : ClippingRects]
    \cup [op : {"intersect_rect"}, self : ClippingRects,
          position : ClipRects \cup {RectNone}]

call_intersection ==
    /\ vin.op = "intersection"
    /\ vout = NoRet
    /\ vout' = [fn |-> "intersection",
                value |-> intersection(vin.self, vin.other)]
    /\ UNCHANGED <<vin, cfgVars, nonValVars>>

call_intersect_rect ==
    /\ vin.op = "intersect_rect"
    /\ vout = NoRet
    /\ vout' = [fn |-> "intersect_rect",
                value |-> intersect_rect(vin.self, vin.position)]
    /\ UNCHANGED <<vin, cfgVars, nonValVars>>

ClipNext ==
    \/ call_intersection
    \/ call_intersect_rect

InitClip ==
    /\ unsafe_textures = FALSE
    /\ vin \in ClipInputs
    /\ vout = NoRet
    /\ LifeInit
    /\ IterIdle
    /\ TargetIdle
    /\ LockIdle

SpecClip == InitClip /\ [][ClipNext]_vars

\* C16: Zero absorbs: Zero.intersection(x) and x.intersection(Zero) are Zero
\* for every x, Some(r), Zero or None.
C16_ZeroAbsorbs ==
    Done("intersection") =>
        ((vin.self = ClipZero \/ vin.other = ClipZero) => vout.value = ClipZero)

\* Some(r).intersection(Zero) was computed
C16_Witness ==
    /\ Done("intersection")
    /\ vin.self.kind = "Some" /\ vin.other = ClipZero
    /\ vout.value = ClipZero

\* C17: None is the identity: None.intersection(x) = x and
\* x.intersection(None) = x for every x, Some(r), Zero or None.
C17_NoneIsIdentity ==
    Done("intersection") =>
        /\ vin.self = ClipNone => vout.value = vin.other
        /\ vin.other = ClipNone => vout.value = vin.self

\* None.intersection(Some(r)) was computed
C17_Witness ==
    /\ Done("intersection")
    /\ vin.self = ClipNone /\ vin.other.kind = "Some"
    /\ vout.value = vin.other

\* the unit cells a rectangle covers
Cells(r) ==
    {<<px, py>> : px \in r.x..(r.x + r.w - 1), py \in r.y..(r.y + r.h - 1)}

\* C18: Some(r1).intersection(Some(r2)) is Zero iff r1 and r2 do not
\* overlap, and otherwise Some of the rectangle covering exactly what both
\* cover; it is never Some of an empty rectangle and never None.
C18_SomeSomeIsGeometric ==
    (Done("intersection") /\ vin.self.kind = "Some" /\ vin.other.kind = "Some") =>
        LET common == Cells(vin.self.rect) \cap Cells(vin.other.rect) IN
        /\ (vout.value = ClipZero) <=> (common = {})
        /\ common # {} =>
               /\ vout.value.kind = "Some"
               /\ vout.value.rect.some
               /\ Cells(vout.value.rect) = common
        /\ vout.value # ClipNone

\* two rects that overlap in part of each
C18_Witness ==
    /\ Done("intersection")
    /\ vin.self.kind = "Some" /\ vin.other.kind = "Some"
    /\ vout.value.kind = "Some"
    /\ vout.value.rect # vin.self.rect
    /\ vout.value.rect # vin.other.rect

\* C19: intersect_rect(self, None) is Zero for every self, None included;
\* intersect_rect(self, Some(p)) is self.intersection(Some(p)).
C19_IntersectRectLikeIntersection ==
    Done("intersect_rect") =>
        IF vin.position.some
        THEN vout.value = intersection(vin.self, ClipSome(vin.position))
        ELSE vout.value = ClipZero

\* ClippingRect::None.intersect_rect(None) was computed
C19_Witness ==
    /\ Done("intersect_rect")
    /\ vin.self = ClipNone /\ ~vin.position.some
    /\ vout.value = ClipZero

\* ------------------------------------------------------------------------
\* Raw codes of BlendMode, TextureAccess and ScaleMode
\* ------------------------------------------------------------------------
MaxRawCode == 34

\* `n as i32` of a u32 and `i as u32` of an i32: the same 32 bits
U32ToI32(n) ==
    IF n.hi < Limb \div 2 THEN n.hi * Limb + n.lo
    ELSE (n.hi - Limb) * Limb + n.lo
I32ToU32(i) ==
    IF i >= 0 THEN U32(i \div Limb, i % Limb)
    ELSE U32(Limb - 1 - ((0 - (i + 1)) \div Limb),
             Limb - 1 - ((0 - (i + 1)) % Limb))

Ok(v) == [tag |-> "Ok", v |-> v]
ErrUnit == [tag |-> "Err", v |-> "none"]
Panic == [tag |-> "panic", v |-> "none"]

\* the native constants the enums take their discriminants from
BlendModes == {"None", "Blend", "Add", "Mod", "Mul", "Invalid"}
SDL_BLENDMODE(v) ==
    CASE v = "None" -> U32(0, 0)
      [] v = "Blend" -> U32(0, 1)
      [] v = "Add" -> U32(0, 2)
      [] v = "Mod" -> U32(0, 4)
      [] v = "Mul" -> U32(0, 8)
      [] v = "Invalid" -> U32(Limb \div 2 - 1, Limb - 1)
SDL_TEXTUREACCESS(v) ==
    CASE v = "Static" -> 0
      [] v = "Streaming" -> 1
      [] v = "Target" -> 2
ScaleModes == {"Nearest", "Linear"}
SDL_SCALEMODE(v) ==
    CASE v = "Nearest" -> 0
      [] v = "Linear" -> 1

\* a #[repr(i32)] enum value `as i32` and `as u32`
BlendMode_as_i32(v) == U32ToI32(SDL_BLENDMODE(v))
BlendMode_as_u32(v) == I32ToU32(BlendMode_as_i32(v))
TextureAccess_as_i32(v) == SDL_TEXTUREACCESS(v)
TextureAccess_as_u32(v) == I32ToU32(TextureAccess_as_i32(v))

\* BlendMode::try_from without the arm of SDL_BLENDMODE_MUL
BlendMode_try_from_without_mul(n) ==
    IF n = SDL_BLENDMODE("None") THEN Ok("None")
    ELSE IF n = SDL_BLENDMODE("Blend") THEN Ok("Blend")
    ELSE IF n = SDL_BLENDMODE("Add") THEN Ok("Add")
    ELSE IF n = SDL_BLENDMODE("Mod") THEN Ok("Mod")
    ELSE IF n = SDL_BLENDMODE("Invalid") THEN Ok("Invalid")
    ELSE ErrUnit

\* impl TryFrom<u32> for BlendMode
BlendMode_try_from(n) ==
    IF n = SDL_BLENDMODE("None") THEN Ok("None")
    ELSE IF n = SDL_BLENDMODE("Blend") THEN Ok("Blend")
    ELSE IF n = SDL_BLENDMODE("Add") THEN Ok("Add")
    ELSE IF n = SDL_BLENDMODE("Mod") THEN Ok("Mod")
    ELSE IF n = SDL_BLENDMODE("Mul") THEN Ok("Mul")
    ELSE IF n = SDL_BLENDMODE("Invalid") THEN Ok("Invalid")
    ELSE ErrUnit

\* impl From<TextureAccess> for SDL_TextureAccess: the i32 inside
SDL_TextureAccess_from(access) == TextureAccess_as_i32(access)

\* impl From<SDL_TextureAccess> for TextureAccess: panics on other values
TextureAccess_from(access) ==
    IF access = SDL_TEXTUREACCESS("Static") THEN Ok("Static")
    ELSE IF access = SDL_TEXTUREACCESS("Streaming") THEN Ok("Streaming")
    ELSE IF access = SDL_TEXTUREACCESS("Target") THEN Ok("Target")
    ELSE Panic

\* TextureAccess::try_from comparing the low 16 bits only
TextureAccess_try_from_low_bits(n) ==
    LET sdl_access == n.lo IN
    IF sdl_access = SDL_TEXTUREACCESS("Static") THEN Ok("Static")
    ELSE IF sdl_access = SDL_TEXTUREACCESS("Streaming") THEN Ok("Streaming")
    ELSE IF sdl_access = SDL_TEXTUREACCESS("Target") THEN Ok("Target")
    ELSE [tag |-> "Err", v |-> n]

\* impl TryFrom<u32> for TextureAccess
TextureAccess_try_from(n) ==
    LET sdl_access == U32ToI32(n) IN
    IF sdl_access = SDL_TEXTUREACCESS("Static") THEN Ok("Static")
    ELSE IF sdl_access = SDL_TEXTUREACCESS("Streaming") THEN Ok("Streaming")
    ELSE IF sdl_access = SDL_TEXTUREACCESS("Target") THEN Ok("Target")
    ELSE [tag |-> "Err", v |-> n]

\* impl Into<SDL_ScaleMode> for ScaleMode: the i32 inside
ScaleMode_into(self) ==
    IF self = "Nearest" THEN SDL_SCALEMODE("Nearest")
    ELSE SDL_SCALEMODE("Linear")

\* impl TryFrom<SDL_ScaleMode> for ScaleMode
ScaleMode_try_from(n) ==
    IF n = SDL_SCALEMODE("Nearest") THEN Ok("Nearest")
    ELSE IF n = SDL_SCALEMODE("Linear") THEN Ok("Linear")
    ELSE ErrUnit

\* impl From<i64> for TextureAccess, n given as its upper 32 bits (a signed
\* number) and its lower 32 bits: try_into::<c_int>().expect(..), then into()
TextureAccess_from_i64(high, low) ==
    IF (high = 0 /\ low.hi < Limb \div 2) \/ (high = -1 /\ low.hi >= Limb \div 2)
    THEN TextureAccess_from(U32ToI32(low))
    ELSE Panic

\* Result::unwrap
unwrap(result) == IF result.tag = "Ok" THEN result ELSE Panic

\* Canvas::blend_mode and InternalTexture::blend_mode: the engine answers
\* `found` (its bool result) and, when found, the code blend
blend_mode(found, blend) ==
    IF ~found THEN Panic ELSE unwrap(BlendMode_try_from(blend))

\* InternalTexture::scale_mode
scale_mode(found, scale) ==
    IF ~found THEN Panic ELSE unwrap(ScaleMode_try_from(U32ToI32(scale)))

\* the conversions that take what the caller or the engine hands in
NativeConversions == {"TextureAccess_i64", "blend_mode", "scale_mode"}
FromNative(conv, high, raw, found) ==
    CASE conv = "TextureAccess_i64" -> TextureAccess_from_i64(high, raw)
      [] conv = "blend_mode" -> blend_mode(found, raw)
      [] conv = "scale_mode" -> scale_mode(found, raw)

\* the conversions to a raw code and back, the raw code kept as 32 bits
Conversions == {"BlendMode_u32", "TextureAccess_u32", "TextureAccess_SDL",
                "ScaleMode_SDL"}
Variants(conv) ==
    CASE conv = "BlendMode_u32" -> BlendModes
      [] conv \in {"TextureAccess_u32", "TextureAccess_SDL"} -> TextureAccesses
      [] conv = "ScaleMode_SDL" -> ScaleModes
ToRaw(conv, v) ==
    CASE conv = "BlendMode_u32" -> BlendMode_as_u32(v)
      [] conv = "TextureAccess_u32" -> TextureAccess_as_u32(v)
      [] conv = "TextureAccess_SDL" -> I32ToU32(SDL_TextureAccess_from(v))
      [] conv = "ScaleMode_SDL" -> I32ToU32(ScaleMode_into(v))
FromRaw(conv, raw) ==
    CASE conv = "BlendMode_u32" -> BlendMode_try_from(raw)
      [] conv = "TextureAccess_u32" -> TextureAccess_try_from(raw)
      [] conv = "TextureAccess_SDL" -> TextureAccess_from(U32ToI32(raw))
      [] conv = "ScaleMode_SDL" -> ScaleMode_try_from(U32ToI32(raw))

\* raw codes tried: the small ones, i32::MAX, i32::MIN and -1
RawCodes ==
    {U32(0, n) : n \in 0..MaxRawCode}
    \cup {U32(Limb \div 2 - 1, Limb - 1), U32(Limb \div 2, 0),
          U32(Limb - 1, Limb - 1)}

EnumInputs ==
    {[op |-> "round_trip", conv |-> c, v |-> v, raw |-> U32(0, 0)] :
        c \in Conversions, v \in BlendModes \cup TextureAccesses \cup ScaleModes}
    \cup [op : {"from_raw"}, conv : Conversions, v : {"none"}, raw : RawCodes]
    \cup {[op |-> "from_native", conv |-> c, v |-> "none", raw |-> r,
           high |-> h, ret |-> b] :
              c \in NativeConversions, r \in RawCodes, h \in {-1, 0, 1},
              b \in BOOLEAN}

\* a variant is converted to its raw code
to_raw ==
    /\ vin.op = "round_trip"
    /\ vout = NoRet
    /\ vout' = [fn |-> "to_raw", raw |-> ToRaw(vin.conv, vin.v)]
    /\ UNCHANGED <<vin, cfgVars, nonValVars>>

\* a raw code, given or just produced, is converted to a variant
from_raw ==
    /\ \/ vin.op = "from_raw" /\ vout = NoRet
          /\ vout' = [fn |-> "from_raw", raw |-> vin.raw,
                      back |-> FromRaw(vin.conv, vin.raw)]
       \/ vin.op = "from_native" /\ vout = NoRet
          /\ vout' = [fn |-> "from_raw", raw |-> vin.raw,
                      back |-> FromNative(vin.conv, vin.high, vin.raw,
                                          vin.ret)]
       \/ vin.op = "round_trip" /\ vout # NoRet /\ vout.fn = "to_raw"
          /\ vout' = [fn |-> "from_raw", raw |-> vout.raw,
                      back |-> FromRaw(vin.conv, vout.raw)]
    /\ UNCHANGED <<vin, cfgVars, nonValVars>>

EnumNext ==
    \/ to_raw
    \/ from_raw

InitEnum ==
    /\ unsafe_textures = FALSE
    /\ vin \in {i \in EnumInputs :
                  /\ i.op = "round_trip" => i.v \in Variants(i.conv)
                  /\ i.op = "from_native" =>
                         /\ i.high # 0 => i.conv = "TextureAccess_i64"
                         /\ ~i.ret => i.conv # "TextureAccess_i64"}
    /\ vout = NoRet
    /\ LifeInit
    /\ IterIdle
    /\ TargetIdle
    /\ LockIdle

SpecEnum == InitEnum /\ [][EnumNext]_vars

\* C20: every variant of BlendMode, TextureAccess and ScaleMode converted
\* to its raw code and back (try_from of `v as u32`, From through
\* SDL_TextureAccess, try_from of v.into()) is Ok(v), and distinct variants
\* have distinct raw codes.
C20_RawCodeRoundTrip ==
    /\ (vin.op = "round_trip" /\ vout # NoRet /\ vout.fn = "from_raw") =>
           vout.back = Ok(vin.v)
    /\ vin.op \in {"round_trip", "from_raw"} =>
           \A v1, v2 \in Variants(vin.conv) :
               v1 # v2 => ToRaw(vin.conv, v1) # ToRaw(vin.conv, v2)

\* BlendMode::Mul has gone to its raw code 8 and back
C20_Witness ==
    /\ vin.op = "round_trip" /\ vin.conv = "BlendMode_u32" /\ vin.v = "Mul"
    /\ vout # NoRet /\ vout.fn = "from_raw"
    /\ vout.raw = U32(0, 8)
    /\ vout.back = Ok("Mul")

\* the raw code is the code of a variant of the conversion's enum
Recognized(conv, raw) ==
    \E v \in Variants(conv) : ToRaw(conv, v) = raw
EnumOf(conv) ==
    CASE conv = "TextureAccess_i64" -> "TextureAccess_SDL"
      [] conv = "blend_mode" -> "BlendMode_u32"
      [] conv = "scale_mode" -> "ScaleMode_SDL"

\* C21: a raw code that is not the code of a variant never becomes a
\* variant: the TryFrom conversions return Err (for TextureAccess carrying
\* the original n, also for n >= 2^31), and From<SDL_TextureAccess>,
\* From<i64>, blend_mode() and scale_mode() panic.
C21_UnrecognizedCodeIsNoVariant ==
    /\ (vin.op = "from_raw" /\ vout # NoRet) =>
           /\ vout.back.tag = "Ok" =>
                  (Recognized(vin.conv, vin.raw)
                      /\ ToRaw(vin.conv, vout.back.v) = vin.raw)
           /\ ~Recognized(vin.conv, vin.raw) =>
                  CASE vin.conv \in {"BlendMode_u32", "ScaleMode_SDL"} ->
                           vout.back.tag = "Err"
                    [] vin.conv = "TextureAccess_u32" ->
                           vout.back.tag = "Err" /\ vout.back.v = vin.raw
                    [] vin.conv = "TextureAccess_SDL" ->
                           vout.back.tag = "panic"
    /\ (vin.op = "from_native" /\ vout # NoRet) =>
           LET known == /\ Recognized(EnumOf(vin.conv), vin.raw)
                        /\ vin.high = 0
           IN
           /\ vout.back.tag = "Ok" =>
                  (known /\ ToRaw(EnumOf(vin.conv), vout.back.v) = vin.raw)
           /\ ~known => vout.back.tag = "panic"

\* TextureAccess::try_from(2^31) was refused, the error carrying 2^31
C21_Witness ==
    /\ vin.op = "from_raw" /\ vout # NoRet
    /\ vin.conv = "TextureAccess_u32"
    /\ vin.raw = U32(Limb \div 2, 0)
    /\ vout.back.tag = "Err" /\ vout.back.v = vin.raw

\* ------------------------------------------------------------------------
\* Render driver iterator
\* ------------------------------------------------------------------------
MaxDrivers == 3

\* drivers(): a new DriverIterator of the driver count, at index 0
drivers(i) ==
    /\ iterators[i].state = "none"
    /\ \A j \in Iterators : j < i => iterators[j].state # "none"
    /\ iterators' = [iterators EXCEPT ![i] =
                         [state |-> "live", length |-> numDrivers,
                          index |-> 0, yielded |-> <<>>]]
    /\ iterRet' = [fn |-> "drivers", it |-> i]
    /\ UNCHANGED <<numDrivers, cfgVars, nonIterVars>>

\* #[derive(Copy, Clone)]: j becomes a copy of i, both fields
copy(i, j) ==
    /\ iterators[i].state = "live"
    /\ iterators[j].state = "none"
    /\ \A k \in Iterators : k < j => iterators[k].state # "none"
    /\ iterators' = [iterators EXCEPT ![j] =
                         [iterators[i] EXCEPT !.yielded = <<>>]]
    /\ iterRet' = [fn |-> "copy", it |-> j, of |-> i]
    /\ UNCHANGED <<numDrivers, cfgVars, nonIterVars>>

\* next testing `index > length`
next_past_the_end(i) ==
    /\ iterators[i].state = "live"
    /\ IF iterators[i].index > iterators[i].length
       THEN /\ iterRet' = [fn |-> "next", it |-> i, some |-> FALSE,
                           lookup |-> -1]
            /\ UNCHANGED iterators
       ELSE /\ iterRet' = [fn |-> "next", it |-> i, some |-> TRUE,
                           lookup |-> iterators[i].index]
            /\ iterators' = [iterators EXCEPT
                                 ![i].index = @ + 1,
                                 ![i].yielded =
                                     Append(@, iterators[i].index)]
    /\ UNCHANGED <<numDrivers, cfgVars, nonIterVars>>

\* DriverIterator::next: None at the end, else SDL_GetRenderDriver(index)
\* and the index moves on; `yielded` keeps the indices handed out so far
next(i) ==
    /\ iterators[i].state = "live"
    /\ IF iterators[i].index >= iterators[i].length
       THEN /\ iterRet' = [fn |-> "next", it |-> i, some |-> FALSE,
                           lookup |-> -1]
            /\ UNCHANGED iterators
       ELSE /\ iterRet' = [fn |-> "next", it |-> i, some |-> TRUE,
                           lookup |-> iterators[i].index]
            /\ iterators' = [iterators EXCEPT
                                 ![i].index = @ + 1,
                                 ![i].yielded =
                                     Append(@, iterators[i].index)]
    /\ UNCHANGED <<numDrivers, cfgVars, nonIterVars>>

\* DriverIterator::size_hint
size_hint(i) ==
    /\ iterators[i].state = "live"
    /\ LET l == iterators[i].length
       IN iterRet' = [fn |-> "size_hint", it |-> i, lower |-> l,
                      upper |-> l]
    /\ UNCHANGED <<numDrivers, iterators, cfgVars, nonIterVars>>

IterNext ==
    \/ \E i \in Iterators : drivers(i)
    \/ \E i, j \in Iterators : copy(i, j)
    \/ \E i \in Iterators : next(i)
    \/ \E i \in Iterators : size_hint(i)

InitIter ==
    /\ unsafe_textures = FALSE
    /\ numDrivers \in 0..MaxDrivers
    /\ iterators = [i \in Iterators |-> NoIterator]
    /\ iterRet = NoRet
    /\ LifeInit /\ TargetIdle /\ LockIdle /\ ValIdle

SpecIter == InitIter /\ [][IterNext]_vars

C27_SizeHintIsRemaining ==
    iterRet.fn = "size_hint" =>
        LET r == iterators[iterRet.it].length - iterators[iterRet.it].index
        IN iterRet.lower = r /\ iterRet.upper = r

\* ------------------------------------------------------------------------
\* Engine failures: calls that return them and calls that panic
\* ------------------------------------------------------------------------
NumErrorStrings == 2
\* what get_error() may hold when an engine call has failed
ErrorStrings == 1..NumErrorStrings

\* Canvas methods that end in `if !result { Err(get_error()) } else { Ok(()) }`
RecoverableMethods ==
    {"draw_point", "draw_points", "draw_line", "draw_lines", "draw_rect",
     "draw_rects", "fill_rect", "fill_rects", "copy", "copy_ex", "set_scale"}
\* Canvas and texture methods that end in `if !ret { panic!(..) }`
FatalMethods ==
    {"set_draw_color", "Canvas::set_blend_mode", "clear", "set_viewport",
     "set_clip_rect", "set_color_mod", "set_alpha_mod", "set_blend_mode",
     "set_scale_mode"}

\* the draw methods panicking on failure
method_result_draw_panics(method, result, error) ==
    IF method \in RecoverableMethods \ {"set_scale"}
    THEN IF ~result THEN [tag |-> "panic", value |-> error]
         ELSE [tag |-> "Ok", value |-> 0]
    ELSE IF method = "set_scale"
    THEN IF ~result THEN [tag |-> "Err", value |-> error]
         ELSE [tag |-> "Ok", value |-> 0]
    ELSE IF ~result THEN [tag |-> "panic", value |-> error]
         ELSE [tag |-> "returns", value |-> 0]

\* clear ignoring the engine's answer
method_result_clear_ignores(method, result, error) ==
    IF method \in RecoverableMethods
    THEN IF ~result THEN [tag |-> "Err", value |-> error]
         ELSE [tag |-> "Ok", value |-> 0]
    ELSE IF ~result /\ method # "clear" THEN [tag |-> "panic", value |-> error]
         ELSE [tag |-> "returns", value |-> 0]

\* how each method ends once the engine has answered `result`, with
\* `error` what get_error() then holds
method_result(method, result, error) ==
    IF method \in RecoverableMethods
    THEN IF ~result THEN [tag |-> "Err", value |-> error]
         ELSE [tag |-> "Ok", value |-> 0]
    ELSE IF ~result THEN [tag |-> "panic", value |-> error]
         ELSE [tag |-> "returns", value |-> 0]

MethodInputs ==
    [op : {"method"},
     method : RecoverableMethods \cup FatalMethods,
     result : BOOLEAN,
     error : ErrorStrings]

call_method ==
    /\ vin.op = "method"
    /\ vout = NoRet
    /\ vout' = method_result(vin.method, vin.result, vin.error)
    /\ UNCHANGED <<vin, cfgVars, nonValVars>>

MethodNext ==
    \/ call_method

InitMethod ==
    /\ unsafe_textures \in BOOLEAN
    /\ vin \in MethodInputs
    /\ vout = NoRet
    /\ LifeInit
    /\ IterIdle
    /\ TargetIdle
    /\ LockIdle

SpecMethod == InitMethod /\ [][MethodNext]_vars

C24_FatalCallsPanic ==
    (Done("method")
        /\ vin.method \in {"set_draw_color", "clear", "set_viewport",
                            "set_clip_rect", "set_color_mod", "set_alpha_mod",
                            "set_blend_mode"}) =>
        /\ ~vin.result => vout.tag = "panic"
        /\ vout.tag \in {"returns", "Ok"} => vin.result

\* clear panicked on a failed engine call
C24_Witness ==
    /\ Done("method")
    /\ vin.method = "clear" /\ ~vin.result
    /\ vout.tag = "panic"

====
